---- MODULE Spec2Model ----
(***************************************************************************)
(* Deep-research engine of FemtoBot: Planner, Hunter, Reader and Critic     *)
(* (src/src/services/deep_research/*.py), the run loop that drives them,    *)
(* and the streaming chat client (src/src/client.py).                       *)
(*                                                                          *)
(* Strings are modelled by what the code does with them:                    *)
(*  - a query is a sequence of word tokens, so appending a suffix and the   *)
(*    substring test of critic.py are sequence operations;                  *)
(*  - a text (page content, description, chunk content) is a record         *)
(*    [seed, len, ws]: the first len characters of the character stream     *)
(*    named seed, the last ws of them whitespace; slicing and strip() act   *)
(*    on len and ws;                                                        *)
(*  - a completion is a record [raises, pre, post, body]: whether the call *)
(*    of the llm_client raises, the markdown fence tokens written directly  *)
(*    before and after the body, and the body (a JSON document or free      *)
(*    text);                                                                *)
(*  - a relevance score is an integer number of hundredths.                 *)
(***************************************************************************)
EXTENDS Integers, Sequences, FiniteSets, TLC

VARIABLES
    \* ---- one call of Planner.create_research_plan
    p_pc,            \* "off", "start", "awaiting", "done"
    p_question,      \* the question
    p_response,      \* the completion received
    p_result,        \* the task list returned
    \* ---- one call of Critic.evaluate_task
    c_pc,            \* "off", "start", "eval_call", "gap_call", "done", "raised"
    c_task,          \* the task evaluated
    c_chunks,        \* the chunks passed in
    c_evalResp,      \* the completion of the evaluation call
    c_gapResp,       \* the completion of the gap-analysis call
    c_result,        \* [decision, gap] returned
    c_llm_calls,     \* completions requested so far
    \* ---- one call of Reader.read_sources
    r_pc,            \* "off", "start", "fetching", "extracting", "done"
    r_sources,       \* the Source objects passed in (mutated by fetch_one)
    r_fetch,         \* per source: "created", "inflight", "returned"
    r_fetched,       \* per source: the payload fetch_one returned
    r_idx,           \* position of the extraction loop in fetched
    r_llm_inflight,  \* extraction completions in flight
    r_response,      \* per source: the completion its extraction received
    r_chunks,        \* the chunks accumulated
    r_max_concurrent,\* self.max_concurrent of the Reader
    r_outcome,       \* per source: what the fetcher answered
    r_extract_calls, \* per source: extraction completions requested
    r_order,         \* the fetches in the order they returned, where it is recorded
    \* ---- two read_sources calls of two runs on one completion provider
    m_pc,            \* per call: "off", "start", "fetching", "extracting", "awaiting_llm", "done"
    m_sources,       \* per call: the number of sources passed in
    m_fetching,      \* per call: the fetches that have not returned yet
    m_idx,           \* per call: position of the extraction loop
    m_llm_inflight,  \* completions the shared provider has in flight
    \* ---- one call of Hunter.hunt
    h_pc,            \* "off", "start", "searching", "done", "raised"
    h_task,          \* the task searched for
    h_search_count,  \* self.search_count of the Hunter
    h_answer,        \* what the search call did
    h_result,        \* the sources returned
    \* ---- read_sources called twice on the same sources
    i_pc,            \* "off", "first", "second", "done"
    i_sources,       \* the Source objects, as the calls leave them
    i_fetcher,       \* the deterministic Fetcher: url -> outcome
    i_provider,      \* the deterministic Completion Provider: prompt -> completion
    i_first,         \* the chunks of the first call
    i_second,        \* the chunks of the second call
    \* ---- one research run (ResearchContext and the control loop)
    phase,           \* "off", "PLANNING", "ITERATING", "FINAL_CHECK", "WRITING", "DONE"
    step,            \* inside ITERATING: "select", "hunt", "evaluate", "gapfill"
    original_question,
    max_iterations,
    iteration_count,
    tasks,           \* context.tasks
    chunks,          \* context.chunks, the fragment pool
    current,         \* index in tasks of the task of this round, 0 when none
    aux_queries,     \* gap queries of this round not yet dispatched
    gap_added,       \* fragments the gap queries of this round have added
    returned,        \* FINAL_CHECK has gone back to ITERATING
    hunt_calls,      \* per task: Hunter/Reader passes dispatched for its id
    writer_calls,    \* calls of the Writer
    decisions,       \* per task: the decisions evaluate_task returned for it, in order
    final_results,   \* the results evaluate_final returned, in order
    \* ---- one call of OllamaClient.stream_chat
    s_pc,            \* "off", "start", "streaming", "closed", "raised"
    s_provider,      \* self.provider: "ollama" or "lmstudio"
    s_open,          \* what client.stream(...) does when entered
    s_lines,         \* the events of response.aiter_lines() not yet consumed
    s_out            \* the texts yielded to the caller, in order

p_vars == <<p_pc, p_question, p_response, p_result>>

c_vars == <<c_pc, c_task, c_chunks, c_evalResp, c_gapResp, c_result, c_llm_calls>>

r_vars == <<r_pc, r_sources, r_fetch, r_fetched, r_idx, r_llm_inflight, r_response, r_chunks,
            r_max_concurrent, r_outcome, r_extract_calls, r_order>>

h_vars == <<h_pc, h_task, h_search_count, h_answer, h_result>>

i_vars == <<i_pc, i_sources, i_fetcher, i_provider, i_first, i_second>>

o_vars == <<phase, step, original_question, max_iterations, iteration_count, tasks,
            chunks, current, aux_queries, gap_added, returned, hunt_calls, writer_calls,
            decisions, final_results>>

s_vars == <<s_pc, s_provider, s_open, s_lines, s_out>>

m_vars == <<m_pc, m_sources, m_fetching, m_idx, m_llm_inflight>>

vars == <<p_vars, c_vars, r_vars, o_vars, h_vars, i_vars, s_vars, m_vars>>

----------------------------------------------------------------------------
(* Generic helpers                                                          *)

Min(a, b) == IF a <= b THEN a ELSE b

Max(a, b) == IF a >= b THEN a ELSE b

\* s[n:] of Python for a sequence
DropFirst(s, n) == SubSeq(s, n + 1, Len(s))

\* s[:n] of Python for a sequence
TakeFirst(s, n) == SubSeq(s, 1, Min(n, Len(s)))

\* A text: the first len characters of the stream seed, the last ws of them
\* whitespace
Text(seed, len, ws) == [seed |-> seed, len |-> len, ws |-> ws]

\* A JSON value that is no string (a number, null) where a text is expected
NotAString == Text("not_a_string", 0, 0)

\* content[:n] works: content is a str
Subscriptable(content) == content # NotAString

----------------------------------------------------------------------------
(* Completions and the cleaning of markdown fences                          *)

\* The seven characters of a markdown json fence (three backticks and json)
FenceJson == "fence_json"

\* The three backticks of a markdown fence
Fence == "fence"

\* response.startswith(json fence) / [7:], then startswith(fence) / [3:]:
\* at most one leading json fence and then at most one leading fence go.
StripLeadingFences(pre) ==
    LET a == IF Len(pre) > 0 /\ pre[1] = FenceJson THEN DropFirst(pre, 1) ELSE pre
    IN  IF Len(a) > 0 /\ a[1] \in {Fence, FenceJson} THEN
            \* a json fence also starts with a fence: only its three backticks go
            IF a[1] = Fence THEN DropFirst(a, 1) ELSE <<"json">> \o DropFirst(a, 1)
        ELSE a

\* response.endswith(fence) / [:-3]: at most one trailing fence goes.
StripTrailingFence(post) ==
    IF Len(post) > 0 /\ post[Len(post)] = Fence
    THEN SubSeq(post, 1, Len(post) - 1)
    ELSE post

\* The fence cleaning shared by planner.py, reader.py and critic.py
_clean_json_response(resp) ==
    [resp EXCEPT !.pre = StripLeadingFences(resp.pre),
                 !.post = StripTrailingFence(resp.post)]

\* json.loads raises JSONDecodeError unless the cleaned text is one JSON document
JSONDecodeError(cleaned) ==
    \/ cleaned.pre # <<>>
    \/ cleaned.post # <<>>
    \/ cleaned.body.kind = "text"

----------------------------------------------------------------------------
(* Planner (planner.py)                                                     *)

PENDING == "pending"

IN_PROGRESS == "in_progress"

COMPLETED == "completed"

FAILED == "failed"

ResearchTask(id, query, priority, status) ==
    [id |-> id, query |-> query, priority |-> priority, status |-> status]

\* _parse_plan_response: the list of task_data, and whether iterating it raises
_parse_plan_response(response) ==
    LET cleaned == _clean_json_response(response)
        data == cleaned.body
    IN  IF JSONDecodeError(cleaned) THEN [items |-> <<>>, iterable |-> TRUE]
        ELSE IF data.kind = "list" THEN [items |-> data.items, iterable |-> TRUE]
        ELSE IF data.kind = "dict" /\ data.key = "tasks"
             THEN [items |-> data.items, iterable |-> data.valKind = "list"]
        ELSE [items |-> <<>>, iterable |-> TRUE]

\* "Break this down into 3-7 specific sub-tasks" of the planning prompt
MinPlanTasks == 3

MaxPlanTasks == 7

\* task_data["query"] raises for a non-dict item or a dict without "query"
TaskDataRaises(task_data) == ~task_data.isDict \/ ~task_data.hasQuery

PlannerFallback(question, idBase) ==
    <<ResearchTask(idBase + 1, question, 1, PENDING)>>

\* Planner.create_research_plan(question, model) with the completion given
create_research_plan(question, response, idBase) ==
    IF response.raises THEN PlannerFallback(question, idBase)
    ELSE LET parsed == _parse_plan_response(response)
             tasks_data == parsed.items
         IN  IF ~parsed.iterable \/ \E i \in DOMAIN tasks_data : TaskDataRaises(tasks_data[i])
             THEN PlannerFallback(question, idBase)
             ELSE [i \in DOMAIN tasks_data |->
                      ResearchTask(idBase + i,
                                   tasks_data[i].query,
                                   IF tasks_data[i].hasPriority
                                   THEN tasks_data[i].priority ELSE i,
                                   PENDING)]

----------------------------------------------------------------------------
(* Critic (critic.py)                                                       *)

\* Critic.__init__ default min_chunks_per_task
MinChunksPerTask == 2

\* priority of the tasks _create_tasks_from_gap builds
EmergencyPriority == 99

\* gap.suggested_queries[:3] in _create_tasks_from_gap
MaxEmergencyTasks == 3

\* "Suggest 2-3 targeted queries" of the gap-analysis prompt
MinSuggestedQueries == 2

MaxSuggestedQueries == 3

CONTINUE == "continue"

FINISH == "finish"

\* A GapAnalysis; queries_null: suggested_queries is None (JSON null), not a list
GapAnalysis(missing_aspects, suggested_queries, queries_null) ==
    [none |-> FALSE, has_gaps |-> TRUE, missing_aspects |-> missing_aspects,
     suggested_queries |-> suggested_queries, queries_null |-> queries_null]

\* The None returned beside FINISH
NoGap ==
    [none |-> TRUE, has_gaps |-> FALSE, missing_aspects |-> "none",
     suggested_queries |-> <<>>, queries_null |-> FALSE]

\* len(chunks) < self.min_chunks_per_task
BelowMinChunks_offByOne(task_chunks) == Len(task_chunks) < MinChunksPerTask - 1

BelowMinChunks(task_chunks) == Len(task_chunks) < MinChunksPerTask

\* The synthetic gap of the minimum-chunks path
QuickGap(task) ==
    GapAnalysis("Insufficient sources found", <<task.query \o <<"more details">>>>, FALSE)

\* The gap built by the except branch of evaluate_task
EvaluationErrorGap(task) == GapAnalysis("Evaluation error", <<task.query>>, FALSE)

\* _parse_evaluation_response: data.get raises when the JSON is not an object;
\* a JSONDecodeError is caught and read as "not sufficient"
_parse_evaluation_response(response) ==
    LET cleaned == _clean_json_response(response)
        data == cleaned.body
    IN  IF JSONDecodeError(cleaned) THEN [raises |-> FALSE, sufficient |-> FALSE]
        ELSE IF data.kind # "dict" THEN [raises |-> TRUE, sufficient |-> FALSE]
        ELSE [raises |-> FALSE,
              sufficient |-> (data.key = "sufficient" /\ data.valKind = "true")]

\* _parse_gap_response
_parse_gap_response(response) ==
    LET cleaned == _clean_json_response(response)
        data == cleaned.body
    IN  IF JSONDecodeError(cleaned)
        THEN [raises |-> FALSE, gap |-> GapAnalysis("Parse error", <<>>, FALSE)]
        ELSE IF data.kind # "dict" THEN [raises |-> TRUE, gap |-> NoGap]
        ELSE IF data.key = "suggested_queries"
             THEN [raises |-> FALSE,
                   gap |-> GapAnalysis("from answer", data.items, data.valKind # "list")]
             ELSE [raises |-> FALSE, gap |-> GapAnalysis("from answer", <<>>, FALSE)]

\* "specific details" in task.query
HasRetrySuffix(query) == \E i \in DOMAIN query : query[i] = "specific details"

\* Critic._analyze_gaps with the completion of the gap-analysis call
_analyze_gaps(task, response) ==
    LET parsed == _parse_gap_response(response)
    IN  IF response.raises \/ parsed.raises
        THEN GapAnalysis("Analysis error",
                         <<IF HasRetrySuffix(task.query) THEN task.query
                           ELSE task.query \o <<"specific details">>>>,
                         FALSE)
        ELSE parsed.gap

\* Critic._analyze_gaps_final
_analyze_gaps_final(question, response) ==
    LET parsed == _parse_gap_response(response)
    IN  IF response.raises \/ parsed.raises
        THEN GapAnalysis("Unknown", <<question>>, FALSE)
        ELSE parsed.gap

\* Critic._create_tasks_from_gap
_create_tasks_from_gap_uncut(gap, idBase) ==
    LET qs == gap.suggested_queries
    IN  [i \in DOMAIN qs |-> ResearchTask(idBase + i, qs[i], EmergencyPriority, PENDING)]

_create_tasks_from_gap(gap, idBase) ==
    LET qs == TakeFirst(gap.suggested_queries, MaxEmergencyTasks)
    IN  [i \in DOMAIN qs |-> ResearchTask(idBase + i, qs[i], EmergencyPriority, PENDING)]

\* What evaluate_task returns once the evaluation completion is in and the
\* answer is not "sufficient": the gap analysis, whose len() is logged
EvaluateAfterGap(task, gapResponse) ==
    LET gap == _analyze_gaps(task, gapResponse)
    IN  IF gap.queries_null
        THEN [decision |-> CONTINUE, gap |-> EvaluationErrorGap(task)]
        ELSE [decision |-> CONTINUE, gap |-> gap]

\* Critic._create_evaluation_prompt raises: c.content[:300] of a chunk whose
\* content is no string. The prompt is built before the try block.
_create_evaluation_prompt_raises(task_chunks) ==
    \E k \in DOMAIN task_chunks : ~Subscriptable(task_chunks[k].content)

\* Critic.evaluate_task with the completions of its (at most two) calls;
\* calls counts the completions requested, raises: the call ends in an
\* exception instead of a value
evaluate_task(task, task_chunks, evalResponse, gapResponse) ==
    IF BelowMinChunks(task_chunks)
    THEN [decision |-> CONTINUE, gap |-> QuickGap(task), calls |-> 0, raises |-> FALSE]
    ELSE IF _create_evaluation_prompt_raises(task_chunks)
    THEN [decision |-> "none", gap |-> NoGap, calls |-> 0, raises |-> TRUE]
    ELSE LET evaluation == _parse_evaluation_response(evalResponse)
         IN  IF evalResponse.raises \/ evaluation.raises
             THEN [decision |-> CONTINUE, gap |-> EvaluationErrorGap(task), calls |-> 1,
                   raises |-> FALSE]
             ELSE IF evaluation.sufficient
             THEN [decision |-> FINISH, gap |-> NoGap, calls |-> 1, raises |-> FALSE]
             ELSE LET r == EvaluateAfterGap(task, gapResponse)
                  IN  [decision |-> r.decision, gap |-> r.gap, calls |-> 2,
                       raises |-> FALSE]

\* Critic.evaluate_final
evaluate_final(question, evalResponse, gapResponse, idBase) ==
    LET evaluation == _parse_evaluation_response(evalResponse)
    IN  IF evalResponse.raises \/ evaluation.raises \/ evaluation.sufficient
        THEN [should_continue |-> FALSE, tasks |-> <<>>]
        ELSE LET gap == _analyze_gaps_final(question, gapResponse)
             IN  IF gap.queries_null
                 THEN [should_continue |-> FALSE, tasks |-> <<>>]
                 ELSE [should_continue |-> TRUE,
                       tasks |-> _create_tasks_from_gap(gap, idBase)]

----------------------------------------------------------------------------
(* Reader (reader.py)                                                       *)

\* Reader.__init__ default min_relevance, 0.7
MinRelevance == 70

\* Reader.__init__ default max_concurrent
MaxConcurrent == 3

\* len(content.strip()) < 50 in fetch_one
MinContentLen == 50

\* content[:2000] of the fallback chunk
FallbackChunkLen == 2000

\* relevance_score=0.5 of the fallback chunk
FallbackRelevance == 50

\* chunk_data.get("relevance", 0.5)
DefaultRelevance == 50

\* "Maximum 5 chunks per source" of the extraction prompt
MaxChunksPerSource == 5

\* content[:8000] in the extraction prompt
PromptContentLen == 8000

\* ""
EmptyString == Text("empty", 0, 0)

\* t[:n]
TextSlice(t, n) ==
    LET newLen == Min(t.len, n)
    IN  Text(t.seed, newLen, Max(0, t.ws - (t.len - newLen)))

\* len(t.strip())
StripLen(t) == t.len - t.ws

Source(url, title, description, task_id) ==
    [url |-> url, title |-> title, description |-> description, task_id |-> task_id,
     fetched |-> FALSE, fetched_content |-> EmptyString]

\* A Chunk; source is the back-reference to the Source (its url and task_id)
Chunk(content, source, relevance_score, task_id) ==
    [content |-> content, source |-> [url |-> source.url, task_id |-> source.task_id],
     relevance_score |-> relevance_score, task_id |-> task_id]

\* Reader._fetch_content: None and an exception of the fetcher both become ""
_fetch_content(outcome) ==
    IF outcome.raises \/ outcome.none \/ outcome.text.len = 0
    THEN EmptyString
    ELSE outcome.text

\* The payload fetch_one settles on: the page, or the description when the
\* page is empty or shorter than 50 characters after strip()
FetchPayload_unstripped(source, outcome) ==
    LET content == _fetch_content(outcome)
    IN  IF content.len = 0 \/ content.len < MinContentLen
        THEN source.description
        ELSE content

FetchPayload(source, outcome) ==
    LET content == _fetch_content(outcome)
    IN  IF content.len = 0 \/ StripLen(content) < MinContentLen
        THEN source.description
        ELSE content

\* fetch_one: the source with fetched_content set, and the payload
fetch_one_skipFetched(source, outcome) ==
    LET content == IF source.fetched THEN source.description
                   ELSE FetchPayload(source, outcome)
    IN  [source |-> [source EXCEPT !.fetched = TRUE, !.fetched_content = content],
         content |-> content]

fetch_one_writesDescription(source, outcome) ==
    LET content == FetchPayload(source, outcome)
    IN  [source |-> [source EXCEPT !.fetched = TRUE, !.fetched_content = content,
                                   !.description = content],
         content |-> content]

fetch_one(source, outcome) ==
    LET content == FetchPayload(source, outcome)
    IN  [source |-> [source EXCEPT !.fetched = TRUE, !.fetched_content = content],
         content |-> content]

\* Does the think block of the answer hold a JSON array (the regex \[[\s\S]*\])
HasArray(body) == body.kind = "list" \/ (body.kind = "dict" /\ body.valKind = "list")

\* Reader._get_llm_response: the think tags are stripped; when nothing is
\* left, the JSON array inside the think block is salvaged
Reader_get_llm_response(response) ==
    IF response.think \in {"none", "before"}
    THEN [response EXCEPT !.think = "none"]
    ELSE \* the whole answer sits inside <think>...</think> or an unclosed <think>
         IF HasArray(response.body)
         THEN [response EXCEPT !.think = "none", !.pre = <<>>, !.post = <<>>,
                               !.body = [kind |-> "list", key |-> "none",
                                         valKind |-> "list", items |-> response.body.items]]
         ELSE [response EXCEPT !.think = "none", !.pre = <<>>, !.post = <<>>,
                               !.body = [kind |-> "text", key |-> "none",
                                         valKind |-> "none", items |-> <<>>]]

\* Reader._parse_extraction_response: the list of chunk_data, and whether
\* iterating it raises
_parse_extraction_response(response) ==
    LET cleaned == _clean_json_response(response)
        data == cleaned.body
    IN  IF JSONDecodeError(cleaned) THEN [items |-> <<>>, iterable |-> TRUE]
        ELSE IF data.kind = "list" THEN [items |-> data.items, iterable |-> TRUE]
        ELSE IF data.kind = "dict" /\ data.key = "chunks"
             THEN [items |-> data.items, iterable |-> data.valKind = "list"]
        ELSE [items |-> <<>>, iterable |-> TRUE]

\* chunk_data passes the isinstance / "content" in chunk_data validation
ValidChunkData(chunk_data) == chunk_data.isDict /\ chunk_data.hasContent

\* chunk_data.get("relevance", 0.5)
RelevanceOf(chunk_data) ==
    IF chunk_data.relKind = "missing" THEN DefaultRelevance ELSE chunk_data.relevance

\* relevance >= self.min_relevance raises TypeError for a string or null
RelevanceRaises(chunk_data) == ValidChunkData(chunk_data) /\ chunk_data.relKind = "bad"

\* if relevance >= self.min_relevance
KeepChunk(chunk_data) ==
    ValidChunkData(chunk_data) /\ RelevanceOf(chunk_data) >= MinRelevance

\* The single chunk of the except branches
FallbackChunk(content, source) ==
    Chunk(TextSlice(content, FallbackChunkLen), source, FallbackRelevance, source.task_id)

\* Reader._extract_relevant_chunks with the completion of its call
_extract_relevant_chunks(content, source, response) ==
    IF response.raises THEN <<FallbackChunk(content, source)>>
    ELSE LET parsed == _parse_extraction_response(Reader_get_llm_response(response))
             kept == SelectSeq(parsed.items, KeepChunk)
         IN  IF ~parsed.iterable \/ \E i \in DOMAIN parsed.items : RelevanceRaises(parsed.items[i])
             THEN <<FallbackChunk(content, source)>>
             ELSE [i \in DOMAIN kept |->
                      Chunk(kept[i].content, source, RelevanceOf(kept[i]), source.task_id)]

\* Reader._create_extraction_prompt: what the completion provider is sent
\* for a payload and a source (the task query is the same for every source)
_create_extraction_prompt(content, source) ==
    [content |-> TextSlice(content, PromptContentLen),
     title |-> source.title, url |-> source.url]

\* The chunks of sources i..Len(sources), extracted one source after the other
RECURSIVE ExtractFrom(_, _, _, _)
ExtractFrom(i, sources, outcomes, responses) ==
    IF i > Len(sources) THEN <<>>
    ELSE LET f == fetch_one(sources[i], outcomes[i])
         IN  _extract_relevant_chunks(f.content, f.source, responses[i])
             \o ExtractFrom(i + 1, sources, outcomes, responses)

\* Reader.read_sources as a function of what the fetcher and the completion
\* provider answer for each source
read_sources(sources, outcomes, responses) == ExtractFrom(1, sources, outcomes, responses)

----------------------------------------------------------------------------
(* Inputs of the planner                                                    *)

\* Longest task list a planning answer carries
MaxPlanItems == 2

Questions == {<<"q0">>, <<"q0", "specific details">>}

PlanItem(isDict, hasQuery, query, hasPriority, priority) ==
    [isDict |-> isDict, hasQuery |-> hasQuery, query |-> query,
     hasPriority |-> hasPriority, priority |-> priority]

PlanItems ==
    { PlanItem(TRUE, TRUE, <<"t1">>, TRUE, 2),
      PlanItem(TRUE, TRUE, <<"t2">>, FALSE, 0),
      PlanItem(TRUE, FALSE, <<>>, TRUE, 1),
      PlanItem(FALSE, FALSE, <<>>, FALSE, 0) }

PlanItemLists == UNION {[1..n -> PlanItems] : n \in 0..MaxPlanItems}

Doc(kind, key, valKind, items) ==
    [kind |-> kind, key |-> key, valKind |-> valKind, items |-> items]

\* Free text: an error message, prose, an empty answer
TextDoc == Doc("text", "none", "none", <<>>)

\* A JSON number, string, boolean or null
ScalarDoc == Doc("scalar", "none", "none", <<>>)

PlanDocs ==
    {Doc("list", "none", "list", l) : l \in PlanItemLists}
    \cup {Doc("dict", "tasks", "list", l) : l \in PlanItemLists}
    \cup {Doc("dict", "tasks", "null", <<>>), Doc("dict", "other", "list", <<>>),
          ScalarDoc, TextDoc}

Pres == {<<>>, <<FenceJson>>, <<Fence>>, <<FenceJson, Fence>>, <<Fence, FenceJson>>}

Posts == {<<>>, <<Fence>>}

Completion(raises, pre, post, body) ==
    [raises |-> raises, pre |-> pre, post |-> post, body |-> body]

\* A call that raised carries no answer
Raised == Completion(TRUE, <<>>, <<>>, TextDoc)

PlanResponses ==
    {Raised} \cup {Completion(FALSE, pre, post, d) : pre \in Pres, post \in Posts, d \in PlanDocs}

\* The answer is not the structured task list: json.loads fails on it
Unparsable(response) == ~response.raises /\ JSONDecodeError(_clean_json_response(response))

----------------------------------------------------------------------------
(* One call of Planner.create_research_plan                                 *)

\* No call of create_research_plan is under way
IdlePlanner ==
    /\ p_pc = "off"
    /\ p_question = <<>>
    /\ p_response = Raised
    /\ p_result = <<>>

\* No call of evaluate_task is under way
IdleCritic ==
    /\ c_pc = "off"
    /\ c_task = ResearchTask(0, <<>>, 0, PENDING)
    /\ c_chunks = <<>>
    /\ c_evalResp = Raised
    /\ c_gapResp = Raised
    /\ c_result = [decision |-> "none", gap |-> NoGap]
    /\ c_llm_calls = 0

\* No call of read_sources is under way
IdleReader ==
    /\ r_pc = "off"
    /\ r_sources = <<>>
    /\ r_fetch = <<>>
    /\ r_fetched = <<>>
    /\ r_idx = 0
    /\ r_llm_inflight = 0
    /\ r_response = <<>>
    /\ r_chunks = <<>>
    /\ r_max_concurrent = MaxConcurrent
    /\ r_outcome = <<>>
    /\ r_extract_calls = <<>>
    /\ r_order = <<>>

\* No call of hunt is under way
IdleHunter ==
    /\ h_pc = "off"
    /\ h_task = ResearchTask(0, <<>>, 0, PENDING)
    /\ h_search_count = 0
    /\ h_answer = <<>>
    /\ h_result = <<>>

\* No pair of read_sources calls is under way
IdleReread ==
    /\ i_pc = "off"
    /\ i_sources = <<>>
    /\ i_fetcher = <<>>
    /\ i_provider = <<>>
    /\ i_first = <<>>
    /\ i_second = <<>>

\* No research run is under way
IdleRun ==
    /\ phase = "off"
    /\ step = "none"
    /\ original_question = <<>>
    /\ max_iterations = 0
    /\ iteration_count = 0
    /\ tasks = <<>>
    /\ chunks = <<>>
    /\ current = 0
    /\ aux_queries = <<>>
    /\ gap_added = 0
    /\ returned = FALSE
    /\ hunt_calls = <<>>
    /\ writer_calls = 0
    /\ decisions = <<>>
    /\ final_results = <<>>

\* The two runs that share a provider
Runs == 1..2

\* No run is reading on a shared provider
IdleShared ==
    /\ m_pc = [k \in Runs |-> "off"]
    /\ m_sources = [k \in Runs |-> 0]
    /\ m_fetching = [k \in Runs |-> 0]
    /\ m_idx = [k \in Runs |-> 0]
    /\ m_llm_inflight = 0

\* No call of stream_chat is under way
IdleClient ==
    /\ s_pc = "off"
    /\ s_provider = "ollama"
    /\ s_open = "none"
    /\ s_lines = <<>>
    /\ s_out = <<>>

InitPlanner ==
    /\ p_pc = "start"
    /\ p_question \in Questions
    /\ p_response = Raised
    /\ p_result = <<>>
    /\ IdleCritic /\ IdleReader /\ IdleRun /\ IdleHunter /\ IdleReread /\ IdleClient /\ IdleShared

\* planner.py:29-32 : the prompt is built and the completion awaited
PlannerRequest ==
    /\ p_pc = "start"
    /\ p_pc' = "awaiting"
    /\ UNCHANGED <<p_question, p_response, p_result>>
    /\ UNCHANGED <<c_vars, r_vars, o_vars, h_vars, i_vars, s_vars, m_vars>>

\* planner.py:32-56 : the completion arrives (or the call raises) and the
\* task list is built
PlannerReturn ==
    /\ p_pc = "awaiting"
    /\ \E resp \in PlanResponses :
          /\ p_response' = resp
          /\ p_result' = create_research_plan(p_question, resp, 0)
    /\ p_pc' = "done"
    /\ UNCHANGED p_question
    /\ UNCHANGED <<c_vars, r_vars, o_vars, h_vars, i_vars, s_vars, m_vars>>

NextPlanner == PlannerRequest \/ PlannerReturn

SpecPlanner == InitPlanner /\ [][NextPlanner]_vars

\* C5: if the planning answer cannot be parsed as the structured task list,
\* create_research_plan returns exactly one task, whose query is the original
\* question verbatim and whose status is pending.
C5_PlannerFallbackOnUnparsable ==
    (p_pc = "done" /\ Unparsable(p_response)) =>
        /\ Len(p_result) = 1
        /\ p_result[1].query = p_question
        /\ p_result[1].status = PENDING

\* The except branch of create_research_plan was taken
TookFallback(response) ==
    \/ response.raises
    \/ ~_parse_plan_response(response).iterable
    \/ \E i \in DOMAIN _parse_plan_response(response).items :
          TaskDataRaises(_parse_plan_response(response).items[i])

\* C25: whenever create_research_plan does not take the fallback, the list it
\* returns holds between 3 and 7 tasks, for every answer of the provider.
C25_ThreeToSevenTasks ==
    (p_pc = "done" /\ ~TookFallback(p_response)) =>
        (MinPlanTasks <= Len(p_result) /\ Len(p_result) <= MaxPlanTasks)

\* C28: create_research_plan never returns an empty task list, whatever the
\* provider answers, an empty JSON list and an object without a task list
\* included.
C28_PlanNeverEmpty ==
    p_pc = "done" => p_result # <<>>

----------------------------------------------------------------------------
(* One call of Critic.evaluate_task                                         *)

\* Most chunks handed to one evaluate_task call
MaxEvalChunks == 3

\* Most queries a gap-analysis answer carries
MaxGapQueries == 4

TaskQueries == {<<"tq">>, <<"tq", "specific details">>}

GapQueryPool == <<<<"g1">>, <<"g2">>, <<"g3">>, <<"g4">>, <<"g5">>>>

EvalDocs ==
    {Doc("dict", "sufficient", "true", <<>>), Doc("dict", "sufficient", "false", <<>>),
     Doc("dict", "other", "none", <<>>), Doc("list", "none", "list", <<>>),
     ScalarDoc, TextDoc}

GapDocs ==
    {Doc("dict", "suggested_queries", "list", SubSeq(GapQueryPool, 1, n)) : n \in 0..MaxGapQueries}
    \cup {Doc("dict", "suggested_queries", "list", <<<<"tq">>, <<"g1">>>>),
          Doc("dict", "suggested_queries", "null", <<>>),
          Doc("dict", "other", "none", <<>>), Doc("list", "none", "list", <<>>),
          ScalarDoc, TextDoc}

CriticPres == {<<>>, <<FenceJson>>}

EvalResponses ==
    {Raised} \cup {Completion(FALSE, pre, post, d) : pre \in CriticPres, post \in Posts, d \in EvalDocs}

GapResponses ==
    {Raised} \cup {Completion(FALSE, pre, post, d) : pre \in CriticPres, post \in Posts, d \in GapDocs}

\* A chunk as the Reader builds it, for the task with this id
SomeChunk(task_id) ==
    Chunk(Text("c1", 120, 0), [url |-> "u1", task_id |-> task_id], 90, task_id)

\* The chunk the Reader builds from an item whose "content" is no string
NotAStringChunk(task_id) ==
    Chunk(NotAString, [url |-> "u1", task_id |-> task_id], 90, task_id)

\* The chunk lists handed to evaluate_task
EvalChunkLists ==
    UNION {[1..n -> {SomeChunk(1), NotAStringChunk(1)}] : n \in 0..MaxEvalChunks}

InitCritic ==
    /\ c_pc = "start"
    /\ \E q \in TaskQueries : c_task = ResearchTask(1, q, 1, IN_PROGRESS)
    /\ c_chunks \in EvalChunkLists
    /\ c_evalResp = Raised
    /\ c_gapResp = Raised
    /\ c_result = [decision |-> "none", gap |-> NoGap]
    /\ c_llm_calls = 0
    /\ IdlePlanner /\ IdleReader /\ IdleRun /\ IdleHunter /\ IdleReread /\ IdleClient /\ IdleShared

\* critic.py:47-55 : the minimum-chunks check returns at once
CriticQuickReturn ==
    /\ c_pc = "start"
    /\ BelowMinChunks(c_chunks)
    /\ c_result' = [decision |-> CONTINUE, gap |-> QuickGap(c_task)]
    /\ c_pc' = "done"
    /\ UNCHANGED <<c_task, c_chunks, c_evalResp, c_gapResp, c_llm_calls>>
    /\ UNCHANGED <<p_vars, r_vars, o_vars, h_vars, i_vars, s_vars, m_vars>>

\* critic.py:58, 214-217 : building the evaluation prompt raises, outside
\* the try block, and the exception leaves evaluate_task
CriticPromptRaises ==
    /\ c_pc = "start"
    /\ ~BelowMinChunks(c_chunks)
    /\ _create_evaluation_prompt_raises(c_chunks)
    /\ c_pc' = "raised"
    /\ UNCHANGED <<c_task, c_chunks, c_evalResp, c_gapResp, c_result, c_llm_calls>>
    /\ UNCHANGED <<p_vars, r_vars, o_vars, h_vars, i_vars, s_vars, m_vars>>

\* critic.py:58-61 : the evaluation completion is requested
CriticEvalRequest ==
    /\ c_pc = "start"
    /\ ~BelowMinChunks(c_chunks)
    /\ ~_create_evaluation_prompt_raises(c_chunks)
    /\ c_llm_calls' = c_llm_calls + 1
    /\ c_pc' = "eval_call"
    /\ UNCHANGED <<c_task, c_chunks, c_evalResp, c_gapResp, c_result>>
    /\ UNCHANGED <<p_vars, r_vars, o_vars, h_vars, i_vars, s_vars, m_vars>>

\* critic.py:61-66, 75-84 : the evaluation completion ends the call, with
\* FINISH or through the except branch
CriticEvalReturn ==
    /\ c_pc = "eval_call"
    /\ \E resp \in EvalResponses :
          LET evaluation == _parse_evaluation_response(resp)
          IN  /\ resp.raises \/ evaluation.raises \/ evaluation.sufficient
              /\ c_evalResp' = resp
              /\ c_result' = IF resp.raises \/ evaluation.raises
                             THEN [decision |-> CONTINUE, gap |-> EvaluationErrorGap(c_task)]
                             ELSE [decision |-> FINISH, gap |-> NoGap]
    /\ c_pc' = "done"
    /\ UNCHANGED <<c_task, c_chunks, c_gapResp, c_llm_calls>>
    /\ UNCHANGED <<p_vars, r_vars, o_vars, h_vars, i_vars, s_vars, m_vars>>

\* critic.py:67-71, 128-131 : the answer is "not sufficient" and the
\* gap-analysis completion is requested
CriticGapRequest ==
    /\ c_pc = "eval_call"
    /\ \E resp \in EvalResponses :
          LET evaluation == _parse_evaluation_response(resp)
          IN  /\ ~resp.raises /\ ~evaluation.raises /\ ~evaluation.sufficient
              /\ c_evalResp' = resp
    /\ c_llm_calls' = c_llm_calls + 1
    /\ c_pc' = "gap_call"
    /\ UNCHANGED <<c_task, c_chunks, c_gapResp, c_result>>
    /\ UNCHANGED <<p_vars, r_vars, o_vars, h_vars, i_vars, s_vars, m_vars>>

\* critic.py:131-152, 72-73 : the gap-analysis completion ends the call
CriticGapReturn ==
    /\ c_pc = "gap_call"
    /\ \E resp \in GapResponses :
          /\ c_gapResp' = resp
          /\ c_result' = EvaluateAfterGap(c_task, resp)
    /\ c_pc' = "done"
    /\ UNCHANGED <<c_task, c_chunks, c_evalResp, c_llm_calls>>
    /\ UNCHANGED <<p_vars, r_vars, o_vars, h_vars, i_vars, s_vars, m_vars>>

NextCritic ==
    \/ CriticQuickReturn
    \/ CriticPromptRaises
    \/ CriticEvalRequest
    \/ CriticEvalReturn
    \/ CriticGapRequest
    \/ CriticGapReturn

SpecCritic == InitCritic /\ [][NextCritic]_vars

\* C7: evaluate_task called with fewer chunks than min_chunks_per_task returns
\* CONTINUE with a gap that is not None and requests no completion.
C7_QuickPathNoCompletion ==
    (c_pc # "off" /\ Len(c_chunks) < MinChunksPerTask) =>
        /\ c_llm_calls = 0
        /\ c_pc \in {"start", "done"}
        /\ c_pc = "done" =>
              /\ c_result.decision = CONTINUE
              /\ ~c_result.gap.none
              /\ c_result.gap.suggested_queries # <<>>

\* A call with one chunk (fewer than the minimum of two) has returned
C7_Witness ==
    /\ c_pc = "done"
    /\ Len(c_chunks) = MinChunksPerTask - 1
    /\ c_result.decision = CONTINUE

\* A call without any chunk has returned
C7_WitnessZero ==
    /\ c_pc = "done"
    /\ Len(c_chunks) = 0
    /\ c_result.decision = CONTINUE

\* C8: whenever the completion call of evaluate_task fails or its answer
\* cannot be parsed, evaluate_task returns CONTINUE with a gap whose
\* suggested_queries is exactly the task's own query.
C8_DegradeToOriginalQuery ==
    (c_pc = "done" /\ c_llm_calls >= 1 /\ (c_evalResp.raises \/ Unparsable(c_evalResp))) =>
        /\ c_result.decision = CONTINUE
        /\ c_result.gap.suggested_queries = <<c_task.query>>

\* C18: whatever the providers do, the call returns a value and raises no
\* exception to the loop that made it; here for evaluate_task, handed the
\* chunks read_sources built from a wrongly shaped extraction answer.
C18_NeverRaises == c_pc # "raised"

\* The evaluation answer is a JSON object that does not say "sufficient": true
NegativeJudgment(response) ==
    /\ ~response.raises
    /\ ~JSONDecodeError(_clean_json_response(response))
    /\ _clean_json_response(response).body.kind = "dict"
    /\ ~_parse_evaluation_response(response).sufficient

\* C19: whenever evaluate_task returns CONTINUE after a negative model
\* judgment, suggested_queries holds 2 or 3 queries and none of them equals
\* the task's own query.
C19_TwoOrThreeNewQueries ==
    (c_pc = "done" /\ c_llm_calls = 2 /\ NegativeJudgment(c_evalResp)
                   /\ c_result.decision = CONTINUE) =>
        /\ Len(c_result.gap.suggested_queries) >= MinSuggestedQueries
        /\ Len(c_result.gap.suggested_queries) <= MaxSuggestedQueries
        /\ \A k \in DOMAIN c_result.gap.suggested_queries :
              c_result.gap.suggested_queries[k] # c_task.query

\* C26: whenever evaluate_task returns CONTINUE, the suggested_queries of the
\* gap hold at least one query for the continuation pass.
C26_ContinueHasQuery ==
    (c_pc = "done" /\ c_result.decision = CONTINUE) =>
        c_result.gap.suggested_queries # <<>>

----------------------------------------------------------------------------
(* evaluate_task called again with a suggested query as the task query      *)

\* Longest task query that is still submitted again
MaxQueryWords == 3

\* The suffixes the degraded paths of evaluate_task append to the query
RetrySuffixes == {"more details", "specific details"}

\* How often the suffix stands in the query
SuffixCount(query, suffix) == Cardinality({k \in DOMAIN query : query[k] = suffix})

\* The CONTINUE came from a degraded path: too few chunks, a failed gap
\* analysis, a failed evaluation
DegradedContinue ==
    /\ c_pc = "done"
    /\ c_result.decision = CONTINUE
    /\ c_result.gap.missing_aspects \in
          {"Insufficient sources found", "Analysis error", "Evaluation error"}

\* A query the returned gap suggests becomes the query of the task, and
\* evaluate_task is called for it with the chunks of the new pass
CriticResubmit ==
    /\ c_pc = "done"
    /\ c_result.decision = CONTINUE
    /\ Len(c_task.query) < MaxQueryWords
    /\ \E k \in DOMAIN c_result.gap.suggested_queries :
          c_task' = [c_task EXCEPT !.query = c_result.gap.suggested_queries[k]]
    /\ c_chunks' \in EvalChunkLists
    /\ c_evalResp' = Raised
    /\ c_gapResp' = Raised
    /\ c_result' = [decision |-> "none", gap |-> NoGap]
    /\ c_llm_calls' = 0
    /\ c_pc' = "start"
    /\ UNCHANGED <<p_vars, r_vars, o_vars, h_vars, i_vars, s_vars, m_vars>>

NextRetry == NextCritic \/ CriticResubmit

SpecRetry == InitCritic /\ [][NextRetry]_vars

\* C20: a retry suffix is appended to a query at most once: a degraded
\* CONTINUE for a query that came from a degraded CONTINUE suggests no query
\* that holds the same suffix twice.
C20_SuffixAppendedOnce ==
    DegradedContinue =>
        \A k \in DOMAIN c_result.gap.suggested_queries :
            \A suffix \in RetrySuffixes :
                SuffixCount(c_result.gap.suggested_queries[k], suffix) <= 1

----------------------------------------------------------------------------
(* One call of Reader.read_sources                                          *)

\* Most sources handed to one read_sources call
MaxSources == 2

SourceUrls == <<"u1", "u2", "u3", "u4", "u5">>

Description == Text("description", 20, 0)

\* The sources hunt builds for a task: distinct urls, one task_id
SourcesFor(task_id, n) ==
    [i \in 1..n |-> Source(SourceUrls[i], "title", Description, task_id)]

FetchOutcome(raises, none, text) == [raises |-> raises, none |-> none, text |-> text]

\* The fetcher has not answered yet
NoOutcome == FetchOutcome(FALSE, TRUE, EmptyString)

\* What WebFetcher.fetch_content does for a url: raise, None (its answer
\* for a failed crawl and for an empty page, which _fetch_content turns into
\* ""), or a text
FetchOutcomes ==
    {FetchOutcome(TRUE, FALSE, EmptyString),
     FetchOutcome(FALSE, TRUE, EmptyString),
     FetchOutcome(FALSE, FALSE, Text("page", 60, 20)),
     FetchOutcome(FALSE, FALSE, Text("page", 3000, 0))}

ChunkData(isDict, hasContent, content, relKind, relevance) ==
    [isDict |-> isDict, hasContent |-> hasContent, content |-> content,
     relKind |-> relKind, relevance |-> relevance]

GoodData == ChunkData(TRUE, TRUE, Text("c1", 120, 0), "num", 90)

LowData == ChunkData(TRUE, TRUE, Text("c2", 80, 0), "num", 30)

NoRelevanceData == ChunkData(TRUE, TRUE, Text("c3", 80, 0), "missing", 0)

BadRelevanceData == ChunkData(TRUE, TRUE, Text("c4", 80, 0), "bad", 0)

NotADictData == ChunkData(FALSE, FALSE, EmptyString, "missing", 0)

\* "content" is a JSON number or null; the Chunk stores it as it is
NotAStringData == ChunkData(TRUE, TRUE, NotAString, "num", 90)

\* "relevance" is a number above 1
OverData == ChunkData(TRUE, TRUE, Text("c6", 80, 0), "num", 700)

\* One item more than the five the extraction prompt asks for
TooManyData == [i \in 1..(MaxChunksPerSource + 1) |-> GoodData]

ChunkDataLists ==
    {<<>>, <<GoodData>>, <<GoodData, LowData>>, <<NoRelevanceData>>,
     <<GoodData, BadRelevanceData>>, <<NotADictData, GoodData>>,
     <<NotAStringData, NotAStringData>>, <<OverData, GoodData>>, TooManyData}

ExtractionDocs ==
    {Doc("list", "none", "list", l) : l \in ChunkDataLists}
    \cup {Doc("dict", "chunks", "list", <<GoodData>>), Doc("dict", "chunks", "null", <<>>),
          Doc("dict", "other", "none", <<>>), ScalarDoc, TextDoc}

\* A completion of the Reader; think: where the answer stands with respect to
\* a think block ("none", "before": after a closed block, "inside": within one)
ReaderCompletion(raises, think, pre, post, body) ==
    [raises |-> raises, think |-> think, pre |-> pre, post |-> post, body |-> body]

ReaderRaised == ReaderCompletion(TRUE, "none", <<>>, <<>>, TextDoc)

GoodList == Doc("list", "none", "list", <<GoodData>>)

ExtractionResponses ==
    {ReaderRaised}
    \cup {ReaderCompletion(FALSE, "none", <<>>, <<>>, d) : d \in ExtractionDocs}
    \cup {ReaderCompletion(FALSE, "none", <<FenceJson>>, <<Fence>>, GoodList),
          ReaderCompletion(FALSE, "none", <<Fence, FenceJson>>, <<Fence>>, GoodList),
          ReaderCompletion(FALSE, "before", <<>>, <<>>, GoodList),
          ReaderCompletion(FALSE, "inside", <<FenceJson>>, <<Fence>>, GoodList),
          ReaderCompletion(FALSE, "inside", <<>>, <<>>, Doc("dict", "chunks", "list", <<GoodData>>)),
          ReaderCompletion(FALSE, "inside", <<>>, <<>>, TextDoc)}

InitReader ==
    /\ r_pc = "start"
    /\ \E n \in 0..MaxSources :
          /\ r_sources = SourcesFor(1, n)
          /\ r_fetch = [i \in 1..n |-> "created"]
          /\ r_fetched = [i \in 1..n |-> EmptyString]
          /\ r_response = [i \in 1..n |-> ReaderRaised]
          /\ r_outcome = [i \in 1..n |-> NoOutcome]
          /\ r_extract_calls = [i \in 1..n |-> 0]
    /\ r_order = <<>>
    /\ r_max_concurrent \in {1, MaxConcurrent}
    /\ r_idx = 0
    /\ r_llm_inflight = 0
    /\ r_chunks = <<>>
    /\ IdlePlanner /\ IdleCritic /\ IdleRun /\ IdleHunter /\ IdleReread /\ IdleClient /\ IdleShared

\* await asyncio.gather(...) resumes when this holds of the fetch tasks
GatherComplete_firstCompleted(fetch) ==
    fetch = <<>> \/ \E i \in DOMAIN fetch : fetch[i] = "returned"

GatherComplete(fetch) == \A i \in DOMAIN fetch : fetch[i] = "returned"

\* reader.py:59-61 : the fetch_one coroutines are created and gathered
ReadStart ==
    /\ r_pc = "start"
    /\ r_pc' = "fetching"
    /\ UNCHANGED <<r_sources, r_fetch, r_fetched, r_idx, r_llm_inflight, r_response, r_chunks>>
    /\ UNCHANGED <<r_max_concurrent, r_outcome, r_extract_calls, r_order>>
    /\ UNCHANGED <<p_vars, c_vars, o_vars, h_vars, i_vars, s_vars, m_vars>>

\* reader.py:45-48 : fetch_one(i) runs up to the await of the fetcher; the
\* event loop starts the tasks in the order they were created
FetchBegin(i) ==
    /\ r_pc \notin {"off", "start"}
    /\ r_fetch[i] = "created"
    /\ \A j \in 1..(i - 1) : r_fetch[j] # "created"
    /\ r_fetch' = [r_fetch EXCEPT ![i] = "inflight"]
    /\ UNCHANGED <<r_pc, r_sources, r_fetched, r_idx, r_llm_inflight, r_response, r_chunks>>
    /\ UNCHANGED <<r_max_concurrent, r_outcome, r_extract_calls, r_order>>
    /\ UNCHANGED <<p_vars, c_vars, o_vars, h_vars, i_vars, s_vars, m_vars>>

\* reader.py:48-54 : the fetcher answers and fetch_one(i) returns
FetchReturns(i) ==
    /\ r_fetch[i] = "inflight"
    /\ \E outcome \in FetchOutcomes :
          LET f == fetch_one(r_sources[i], outcome)
          IN  /\ r_sources' = [r_sources EXCEPT ![i] = f.source]
              /\ r_fetched' = [r_fetched EXCEPT ![i] = f.content]
              /\ r_outcome' = [r_outcome EXCEPT ![i] = outcome]
    /\ r_fetch' = [r_fetch EXCEPT ![i] = "returned"]
    /\ UNCHANGED <<r_pc, r_idx, r_llm_inflight, r_response, r_chunks>>
    /\ UNCHANGED <<r_max_concurrent, r_extract_calls>>
    /\ UNCHANGED <<p_vars, c_vars, o_vars, h_vars, i_vars, s_vars, m_vars>>

FetchEnd(i) == FetchReturns(i) /\ UNCHANGED r_order

\* The same step, with the order in which the fetches return recorded
FetchEndLogged(i) == FetchReturns(i) /\ r_order' = Append(r_order, i)

\* asyncio.gather hands back the results in the order of the awaitables it
\* was given, whatever order they completed in
GatherResults_asCompleted(n, order) == order

GatherResults(n, order) == [i \in 1..n |-> i]

\* The source the extraction loop stands at
ExtractIndex == GatherResults(Len(r_sources), r_order)[r_idx]

\* reader.py:61-64 : gather returns and the extraction loop starts
GatherReturn ==
    /\ r_pc = "fetching"
    /\ GatherComplete(r_fetch)
    /\ r_pc' = "extracting"
    /\ r_idx' = 1
    /\ UNCHANGED <<r_sources, r_fetch, r_fetched, r_llm_inflight, r_response, r_chunks>>
    /\ UNCHANGED <<r_max_concurrent, r_outcome, r_extract_calls, r_order>>
    /\ UNCHANGED <<p_vars, c_vars, o_vars, h_vars, i_vars, s_vars, m_vars>>

\* reader.py:64-76, 118-121 : the loop requests the extraction of fetched[r_idx]
ExtractRequest ==
    /\ r_pc = "extracting"
    /\ r_idx <= Len(r_sources)
    /\ r_llm_inflight' = r_llm_inflight + 1
    /\ r_extract_calls' = [r_extract_calls EXCEPT ![ExtractIndex] = @ + 1]
    /\ r_pc' = "awaiting_llm"
    /\ UNCHANGED <<r_sources, r_fetch, r_fetched, r_idx, r_response, r_chunks>>
    /\ UNCHANGED <<r_max_concurrent, r_outcome, r_order>>
    /\ UNCHANGED <<p_vars, c_vars, o_vars, h_vars, i_vars, s_vars, m_vars>>

\* reader.py:121-155, 77 : the completion arrives and the chunks are appended
ExtractReturn ==
    /\ r_pc = "awaiting_llm"
    /\ \E resp \in ExtractionResponses :
          /\ r_response' = [r_response EXCEPT ![ExtractIndex] = resp]
          /\ r_chunks' = r_chunks \o
                _extract_relevant_chunks(r_fetched[ExtractIndex], r_sources[ExtractIndex],
                                         resp)
    /\ r_llm_inflight' = r_llm_inflight - 1
    /\ r_idx' = r_idx + 1
    /\ r_pc' = "extracting"
    /\ UNCHANGED <<r_sources, r_fetch, r_fetched>>
    /\ UNCHANGED <<r_max_concurrent, r_outcome, r_extract_calls, r_order>>
    /\ UNCHANGED <<p_vars, c_vars, o_vars, h_vars, i_vars, s_vars, m_vars>>

\* reader.py:90-91 : the loop is over and the chunks are returned
ReadReturn ==
    /\ r_pc = "extracting"
    /\ r_idx > Len(r_sources)
    /\ r_pc' = "done"
    /\ UNCHANGED <<r_sources, r_fetch, r_fetched, r_idx, r_llm_inflight, r_response, r_chunks>>
    /\ UNCHANGED <<r_max_concurrent, r_outcome, r_extract_calls, r_order>>
    /\ UNCHANGED <<p_vars, c_vars, o_vars, h_vars, i_vars, s_vars, m_vars>>

NextReader ==
    \/ ReadStart
    \/ \E i \in DOMAIN r_fetch : FetchBegin(i)
    \/ \E i \in DOMAIN r_fetch : FetchEnd(i)
    \/ GatherReturn
    \/ ExtractRequest
    \/ ExtractReturn
    \/ ReadReturn

SpecReader == InitReader /\ [][NextReader]_vars

\* The same call with the order of the fetch returns recorded
NextReadOrder ==
    \/ ReadStart
    \/ \E i \in DOMAIN r_fetch : FetchBegin(i)
    \/ \E i \in DOMAIN r_fetch : FetchEndLogged(i)
    \/ GatherReturn
    \/ ExtractRequest
    \/ ExtractReturn
    \/ ReadReturn

SpecReadOrder == InitReader /\ [][NextReadOrder]_vars

\* The chunks of r_chunks that come from source i
ChunksOfSource(i) ==
    SelectSeq(r_chunks, LAMBDA c : c.source.url = r_sources[i].url)

\* C9: when the extraction answer for a source cannot be parsed, read_sources
\* returns for that source exactly one chunk, whose content is the first 2000
\* characters of the payload and whose relevance_score is 0.5.
C9_FallbackChunkOnUnparsable ==
    r_pc = "done" =>
        \A i \in DOMAIN r_sources :
            Unparsable(Reader_get_llm_response(r_response[i])) =>
                ChunksOfSource(i) =
                    <<Chunk(TextSlice(r_fetched[i], FallbackChunkLen), r_sources[i],
                            FallbackRelevance, r_sources[i].task_id)>>

\* C10: within one read_sources call at most one extraction completion is in
\* flight at any time, and no extraction call starts before every fetch of
\* the call has finished.
C10_ExtractionSerializedAfterFetch ==
    /\ r_llm_inflight <= 1
    /\ (r_llm_inflight > 0 \/ r_idx > 1 \/ r_chunks # <<>>) =>
          \A i \in DOMAIN r_fetch : r_fetch[i] = "returned"

\* The second of two extraction calls is in flight
C10_Witness ==
    /\ r_pc = "awaiting_llm"
    /\ r_llm_inflight = 1
    /\ Len(r_sources) >= 2
    /\ r_idx = 2

\* The fetches of the call that are in flight
InFlight == {i \in DOMAIN r_fetch : r_fetch[i] = "inflight"}

\* C11: during the fetch phase of read_sources the number of fetches in
\* flight at the same time never exceeds max_concurrent.
C11_FetchesWithinCap == Cardinality(InFlight) <= r_max_concurrent

\* The fetch of a source raised, failed, or gave a text that is empty or
\* shorter than the minimum after strip()
FetchFailed(outcome) ==
    \/ outcome.raises
    \/ outcome.none
    \/ outcome.text.len = 0
    \/ StripLen(outcome.text) < MinContentLen

\* C12: for every source whose fetch raises, fails, or returns empty or too
\* short a text, the description is the payload and exactly one extraction
\* call is made for the source.
C12_DescriptionFallbackStillExtracted ==
    \A i \in DOMAIN r_sources :
        (r_fetch[i] = "returned" /\ FetchFailed(r_outcome[i])) =>
            /\ r_fetched[i] = r_sources[i].description
            /\ r_sources[i].fetched_content = r_sources[i].description
            /\ r_extract_calls[i] <= 1
            /\ r_idx > i => r_extract_calls[i] = 1
            /\ r_pc = "done" => r_extract_calls[i] = 1

\* Two sources, the first fetched too short a page and the second failed,
\* have both been through their extraction call
C12_Witness ==
    /\ r_pc = "done"
    /\ Len(r_sources) = 2
    /\ ~r_outcome[1].raises /\ ~r_outcome[1].none /\ r_outcome[1].text.len > MinContentLen
    /\ FetchFailed(r_outcome[1])
    /\ r_outcome[2].raises
    /\ r_extract_calls = <<1, 1>>

\* C13: no chunk returned by read_sources has a relevance_score below
\* min_relevance.
C13_NoChunkBelowMinRelevance ==
    \A k \in DOMAIN r_chunks : r_chunks[k].relevance_score >= MinRelevance

\* C14: read_sources keeps at most 5 chunks of each source.
C14_AtMostFivePerSource ==
    \A i \in DOMAIN r_sources : Len(ChunksOfSource(i)) <= MaxChunksPerSource

----------------------------------------------------------------------------
(* read_sources called twice with the same sources and task query, against  *)
(* a Fetcher and a Completion Provider that answer the same request the     *)
(* same way                                                                 *)

\* Answers the deterministic provider gives: a failed call, one relevant
\* chunk, free text
RereadResponses ==
    {ReaderRaised,
     ReaderCompletion(FALSE, "none", <<>>, <<>>, GoodList),
     ReaderCompletion(FALSE, "none", <<>>, <<>>, TextDoc)}

\* The urls of the first n sources
UrlsOf(n) == {SourceUrls[i] : i \in 1..n}

\* Every prompt read_sources can send for the first n sources
PromptsFor(n) ==
    {_create_extraction_prompt(FetchPayload(SourcesFor(1, n)[i], o), SourcesFor(1, n)[i]) :
        i \in 1..n, o \in FetchOutcomes}

\* What the fetcher answers for each source of the call
OutcomesOf(sources, fetcher) == [i \in DOMAIN sources |-> fetcher[sources[i].url]]

\* What the provider answers to the prompt of each source of the call
ResponsesOf(sources, fetcher, provider) ==
    [i \in DOMAIN sources |->
        provider[_create_extraction_prompt(
                    fetch_one(sources[i], fetcher[sources[i].url]).content, sources[i])]]

\* The Source objects as fetch_one leaves them
SourcesAfter(sources, fetcher) ==
    [i \in DOMAIN sources |-> fetch_one(sources[i], fetcher[sources[i].url]).source]

InitReread ==
    /\ i_pc = "first"
    /\ \E n \in 0..MaxSources :
          /\ i_sources = SourcesFor(1, n)
          /\ i_fetcher \in [UrlsOf(n) -> FetchOutcomes]
          /\ i_provider \in [PromptsFor(n) -> RereadResponses]
    /\ i_first = <<>>
    /\ i_second = <<>>
    /\ IdlePlanner /\ IdleCritic /\ IdleReader /\ IdleRun /\ IdleHunter /\ IdleClient /\ IdleShared

\* reader.py:31-91 : the first call
RereadFirst ==
    /\ i_pc = "first"
    /\ i_first' = read_sources(i_sources, OutcomesOf(i_sources, i_fetcher),
                               ResponsesOf(i_sources, i_fetcher, i_provider))
    /\ i_sources' = SourcesAfter(i_sources, i_fetcher)
    /\ i_pc' = "second"
    /\ UNCHANGED <<i_fetcher, i_provider, i_second>>
    /\ UNCHANGED <<p_vars, c_vars, r_vars, o_vars, h_vars, s_vars, m_vars>>

\* reader.py:31-91 : the second call, on the sources the first call enriched
RereadSecond ==
    /\ i_pc = "second"
    /\ i_second' = read_sources(i_sources, OutcomesOf(i_sources, i_fetcher),
                                ResponsesOf(i_sources, i_fetcher, i_provider))
    /\ i_sources' = SourcesAfter(i_sources, i_fetcher)
    /\ i_pc' = "done"
    /\ UNCHANGED <<i_fetcher, i_provider, i_first>>
    /\ UNCHANGED <<p_vars, c_vars, r_vars, o_vars, h_vars, s_vars, m_vars>>

NextReread == RereadFirst \/ RereadSecond

SpecReread == InitReread /\ [][NextReread]_vars

\* C15: two read_sources calls with the same sources and task query, with a
\* deterministic Fetcher and Completion Provider, return the same chunks
\* (content, relevance_score, task_id and source).
C15_RereadSameChunks == i_pc = "done" => i_second = i_first

\* Both calls returned two chunks, one of them the fallback chunk of a
\* source whose page was fetched
C15_Witness ==
    /\ i_pc = "done"
    /\ Len(i_first) = 2
    /\ Len(i_second) = 2
    /\ \E k \in DOMAIN i_first :
          /\ i_first[k].relevance_score = FallbackRelevance
          /\ i_first[k].content.seed = "page"

----------------------------------------------------------------------------
(* Hunter (hunter.py) and BraveSearch.search (search_utils.py)              *)
(*                                                                          *)
(* A multi-line string is the sequence of its blocks (the parts that        *)
(* split("\n\n") separates), each block the sequence of its lines; a line   *)
(* is a string, "" when it holds only whitespace.                           *)

\* One line of text that starts with "["
ErrorText(line) == [bracket |-> TRUE, blocks |-> <<<<line>>>>]

\* f"{i}. **{title}**\n   {description}\n   {url}": the blocks of one result.
\* A title that holds blank lines spreads over several blocks.
FormatResult(result) ==
    LET k == Len(result.title)
    IN  SubSeq(result.title, 1, k - 1)
        \o <<result.title[k] \o <<result.description, result.url>>>>

\* "\n\n".join(results)
RECURSIVE JoinResults(_)
JoinResults(web_results) ==
    IF web_results = <<>> THEN <<>>
    ELSE FormatResult(Head(web_results)) \o JoinResults(Tail(web_results))

\* BraveSearch.search(query, count): the string returned for what the API
\* did (the outcome that ends the retry loop)
BraveSearch_search(api, count) ==
    IF api.kind = "no_key" THEN ErrorText("[Error: BRAVE_API_KEY not configured in .env]")
    ELSE IF api.kind = "rate_limited" THEN ErrorText("[Error: Rate limit exceeded (429)]")
    ELSE IF api.kind = "http_error" THEN ErrorText("[Search error: 500]")
    ELSE IF api.kind = "exception" THEN ErrorText("[Search error: timed out]")
    ELSE LET results == TakeFirst(api.web_results, count)
         IN  IF results = <<>> THEN ErrorText("[No results found]")
             ELSE [bracket |-> FALSE, blocks |-> JoinResults(results)]

\* entry.strip().split("\n"): the whitespace-only lines at the end go
RECURSIVE StripLines(_)
StripLines(block) ==
    IF block # <<>> /\ block[Len(block)] = ""
    THEN StripLines(SubSeq(block, 1, Len(block) - 1))
    ELSE block

\* Hunter._parse_search_results
RECURSIVE ParseEntries(_, _)
ParseEntries(entries, task_id) ==
    IF entries = <<>> THEN <<>>
    ELSE LET lines == StripLines(Head(entries))
         IN  (IF Len(lines) >= 3
              THEN <<Source(lines[3], lines[1], lines[2], task_id)>>
              ELSE <<>>)
             \o ParseEntries(Tail(entries), task_id)

\* not results or results.startswith("[") or results.startswith("No results"):
\* a string of BraveSearch.search starts with "[" or with the number of its
\* first result, never with "No results"
_parse_search_results_untagged(results, task_id) ==
    IF results.blocks = <<>> \/ results.bracket
    THEN <<>>
    ELSE ParseEntries(results.blocks, 0)

_parse_search_results(results, task_id) ==
    IF results.blocks = <<>> \/ results.bracket
    THEN <<>>
    ELSE ParseEntries(results.blocks, task_id)

\* Hunter.hunt with what the search call did
hunt_propagates(task, answer, search_count) ==
    IF answer.raises
    THEN [raises |-> TRUE, sources |-> <<>>]
    ELSE [raises |-> FALSE,
          sources |-> _parse_search_results(
                         BraveSearch_search(answer.api, search_count), task.id)]

hunt(task, answer, search_count) ==
    IF answer.raises
    THEN [raises |-> FALSE, sources |-> <<>>]
    ELSE [raises |-> FALSE,
          sources |-> _parse_search_results(
                         BraveSearch_search(answer.api, search_count), task.id)]

----------------------------------------------------------------------------
(* One call of Hunter.hunt                                                  *)

\* Largest search_count of a Hunter
MaxSearchCount == 2

\* Most results an API answer carries
MaxApiResults == 3

WebResult(title, description, url) ==
    [title |-> title, description |-> description, url |-> url]

\* Results of the API: a plain one, one whose title holds line breaks and a
\* blank line, one without a url
WebResults ==
    {WebResult(<<<<"T">>>>, "D", "U"),
     WebResult(<<<<"A", "B", "C">>, <<"E">>>>, "D", "U"),
     WebResult(<<<<"T">>>>, "D", "")}

WebResultLists == UNION {[1..n -> WebResults] : n \in 0..MaxApiResults}

ApiAnswer(kind, web_results) == [kind |-> kind, web_results |-> web_results]

SearchAnswer(raises, api) == [raises |-> raises, api |-> api]

\* What the search call can do: raise, or return after the API did this
SearchAnswers ==
    {SearchAnswer(TRUE, ApiAnswer("exception", <<>>))}
    \cup {SearchAnswer(FALSE, ApiAnswer(k, <<>>)) :
             k \in {"no_key", "rate_limited", "http_error", "exception"}}
    \cup {SearchAnswer(FALSE, ApiAnswer("ok", l)) : l \in WebResultLists}

InitHunter ==
    /\ h_pc = "start"
    /\ \E id \in 1..2 : h_task = ResearchTask(id, <<"tq">>, 1, IN_PROGRESS)
    /\ h_search_count \in 1..MaxSearchCount
    /\ h_answer = SearchAnswer(FALSE, ApiAnswer("ok", <<>>))
    /\ h_result = <<>>
    /\ IdlePlanner /\ IdleCritic /\ IdleReader /\ IdleRun /\ IdleReread /\ IdleClient /\ IdleShared

\* hunter.py:27-34 : the search is requested
HuntRequest ==
    /\ h_pc = "start"
    /\ h_pc' = "searching"
    /\ UNCHANGED <<h_task, h_search_count, h_answer, h_result>>
    /\ UNCHANGED <<p_vars, c_vars, r_vars, o_vars, i_vars, s_vars, m_vars>>

\* hunter.py:31-44 : the search call returns or raises and hunt returns
HuntReturn ==
    /\ h_pc = "searching"
    /\ \E answer \in SearchAnswers :
          LET r == hunt(h_task, answer, h_search_count)
          IN  /\ h_answer' = answer
              /\ h_result' = r.sources
              /\ h_pc' = IF r.raises THEN "raised" ELSE "done"
    /\ UNCHANGED <<h_task, h_search_count>>
    /\ UNCHANGED <<p_vars, c_vars, r_vars, o_vars, i_vars, s_vars, m_vars>>

NextHunter == HuntRequest \/ HuntReturn

SpecHunter == InitHunter /\ [][NextHunter]_vars

\* The Search Provider failed: the call raised, or reported a missing key, a
\* rate limit, an HTTP error, an error of the request, or no results
SearchFailed(answer) ==
    \/ answer.raises
    \/ answer.api.kind # "ok"
    \/ answer.api.web_results = <<>>

\* C16: hunt returns an empty list and raises no exception whenever the
\* Search Provider fails.
C16_EmptyListOnSearchFailure ==
    (h_pc \in {"done", "raised"} /\ SearchFailed(h_answer)) =>
        /\ h_pc = "done"
        /\ h_result = <<>>

\* hunt has returned after the search call raised
C16_Witness ==
    /\ h_pc = "done"
    /\ h_answer.raises
    /\ h_result = <<>>

\* hunt has returned after the search reported a rate limit
C16_WitnessRateLimit ==
    /\ h_pc = "done"
    /\ ~h_answer.raises
    /\ h_answer.api.kind = "rate_limited"
    /\ h_result = <<>>

\* C17: the list hunt returns holds at most search_count sources.
C17_AtMostSearchCount == h_pc = "done" => Len(h_result) <= h_search_count

----------------------------------------------------------------------------
(* One call of Critic.evaluate_final, on the context of a run at FINAL_CHECK *)

\* The tasks of the context when evaluate_final is called
FinalContextTasks ==
    {<<>>, <<ResearchTask(1, <<"t1">>, 1, COMPLETED)>>}

\* The result evaluate_final has not returned yet
NoFinalResult == [should_continue |-> FALSE, tasks |-> <<>>]

InitFinal ==
    /\ c_pc = "final_start"
    /\ c_task = ResearchTask(0, <<>>, 0, PENDING)
    /\ c_chunks = <<>>
    /\ c_evalResp = Raised
    /\ c_gapResp = Raised
    /\ c_result = NoFinalResult
    /\ c_llm_calls = 0
    /\ phase = "FINAL_CHECK"
    /\ step = "none"
    /\ original_question \in Questions
    /\ max_iterations = 1
    /\ iteration_count \in {0, 1}
    /\ tasks \in FinalContextTasks
    /\ chunks = <<>>
    /\ current = 0
    /\ aux_queries = <<>>
    /\ gap_added = 0
    /\ returned = FALSE
    /\ hunt_calls = [i \in DOMAIN tasks |-> 1]
    /\ writer_calls = 0
    /\ decisions = [i \in DOMAIN tasks |-> <<FINISH>>]
    /\ final_results = <<>>
    /\ IdlePlanner /\ IdleReader /\ IdleHunter /\ IdleReread /\ IdleClient /\ IdleShared

\* critic.py:190-205 : the tasks _create_tasks_from_gap builds are returned;
\* context.tasks is read for its length only and stays as it is
ContextTasksAfter_inserted(ts, created) == ts \o created

ContextTasksAfter(ts, created) == ts

\* The fields of the context other than tasks
o_rest == <<phase, step, original_question, max_iterations, iteration_count, chunks,
            current, aux_queries, gap_added, returned, hunt_calls, writer_calls,
            decisions, final_results>>

\* critic.py:101-104 : the final evaluation completion is requested
FinalEvalRequest ==
    /\ c_pc = "final_start"
    /\ c_llm_calls' = c_llm_calls + 1
    /\ c_pc' = "final_eval_call"
    /\ UNCHANGED <<c_task, c_chunks, c_evalResp, c_gapResp, c_result>>
    /\ UNCHANGED <<p_vars, r_vars, o_vars, h_vars, i_vars, s_vars, m_vars>>

\* critic.py:104-108, 115-117 : the evaluation completion ends the call,
\* "sufficient" or through the except branch
FinalEvalReturn ==
    /\ c_pc = "final_eval_call"
    /\ \E resp \in EvalResponses :
          LET evaluation == _parse_evaluation_response(resp)
          IN  /\ resp.raises \/ evaluation.raises \/ evaluation.sufficient
              /\ c_evalResp' = resp
              /\ c_result' = evaluate_final(original_question, resp, Raised, Len(tasks))
              /\ tasks' = ContextTasksAfter(
                              tasks,
                              evaluate_final(original_question, resp, Raised, Len(tasks)).tasks)
    /\ c_pc' = "final_done"
    /\ UNCHANGED <<c_task, c_chunks, c_gapResp, c_llm_calls>>
    /\ UNCHANGED <<p_vars, r_vars, o_rest, h_vars, i_vars, s_vars, m_vars>>

\* critic.py:109-111, 179-181 : the answer is "not sufficient" and the final
\* gap-analysis completion is requested
FinalGapRequest ==
    /\ c_pc = "final_eval_call"
    /\ \E resp \in EvalResponses :
          LET evaluation == _parse_evaluation_response(resp)
          IN  /\ ~resp.raises /\ ~evaluation.raises /\ ~evaluation.sufficient
              /\ c_evalResp' = resp
    /\ c_llm_calls' = c_llm_calls + 1
    /\ c_pc' = "final_gap_call"
    /\ UNCHANGED <<c_task, c_chunks, c_gapResp, c_result>>
    /\ UNCHANGED <<p_vars, r_vars, o_vars, h_vars, i_vars, s_vars, m_vars>>

\* critic.py:111-117, 181-188 : the gap-analysis completion ends the call
FinalGapReturn ==
    /\ c_pc = "final_gap_call"
    /\ \E resp \in GapResponses :
          /\ c_gapResp' = resp
          /\ c_result' = evaluate_final(original_question, c_evalResp, resp, Len(tasks))
          /\ tasks' = ContextTasksAfter(
                          tasks,
                          evaluate_final(original_question, c_evalResp, resp, Len(tasks)).tasks)
    /\ c_pc' = "final_done"
    /\ UNCHANGED <<c_task, c_chunks, c_evalResp, c_llm_calls>>
    /\ UNCHANGED <<p_vars, r_vars, o_rest, h_vars, i_vars, s_vars, m_vars>>

NextFinal ==
    \/ FinalEvalRequest
    \/ FinalEvalReturn
    \/ FinalGapRequest
    \/ FinalGapReturn

SpecFinal == InitFinal /\ [][NextFinal]_vars

\* The final evaluation answer says "sufficient": true
JudgedSufficient(response) ==
    ~response.raises /\ ~_parse_evaluation_response(response).raises
                     /\ _parse_evaluation_response(response).sufficient

\* C21: evaluate_final returns at most 3 extra tasks for every gap-analysis
\* answer, each pending and with the emergency priority 99; when the pool is
\* judged sufficient it returns should_continue = false and no task.
C21_AtMostThreeEmergencyTasks ==
    c_pc = "final_done" =>
        /\ Len(c_result.tasks) <= MaxEmergencyTasks
        /\ \A k \in DOMAIN c_result.tasks :
              /\ c_result.tasks[k].status = PENDING
              /\ c_result.tasks[k].priority = EmergencyPriority
        /\ JudgedSufficient(c_evalResp) =>
              (~c_result.should_continue /\ c_result.tasks = <<>>)

\* A gap-analysis answer with four queries has been cut to three tasks
C21_Witness ==
    /\ c_pc = "final_done"
    /\ c_llm_calls = 2
    /\ ~c_gapResp.raises
    /\ Len(_analyze_gaps_final(original_question, c_gapResp).suggested_queries) = 4
    /\ Len(c_result.tasks) = 3

\* A final evaluation judged sufficient has returned
C21_WitnessSufficient ==
    /\ c_pc = "final_done"
    /\ JudgedSufficient(c_evalResp)
    /\ c_result = [should_continue |-> FALSE, tasks |-> <<>>]

\* C27: evaluate_final returns should_continue = true only together with a
\* non-empty list of extra tasks.
C27_ContinueOnlyWithTasks ==
    (c_pc = "final_done" /\ c_result.should_continue) => c_result.tasks # <<>>

----------------------------------------------------------------------------
(* OllamaClient.stream_chat (client.py)                                     *)
(*                                                                          *)
(* A yielded text is the sequence of its words; an error message starts     *)
(* with the word "Error".                                                   *)

\* Most lines a response streams
MaxStreamLines == 2

Providers == {"ollama", "lmstudio"}

\* What entering client.stream(...) does: one of three exceptions, a
\* response with a status other than 200, or a response with status 200
OpenOutcomes == {"ConnectError", "RemoteProtocolError", "Exception", "status", "ok"}

\* What response.aiter_lines() does next: an exception, or a line that is
\* empty, holds content, holds content and the end marker, holds the end
\* marker alone, holds an object without content, holds JSON that is no
\* object, or holds no JSON
LineEvents ==
    {"ConnectError", "RemoteProtocolError", "Exception",
     "empty", "content", "content_done", "done", "no_content", "not_object", "invalid"}

\* The exceptions the except clauses name, and any other
ExceptionKinds == {"ConnectError", "RemoteProtocolError", "Exception"}

\* The message an except clause yields
ErrorMessage(provider, kind) ==
    CASE kind = "ConnectError" -> <<"Error", "could not connect", provider>>
      [] kind = "RemoteProtocolError" -> <<"Error", "closed unexpectedly", provider>>
      [] OTHER -> <<"Error", "str(e)">>

\* The message of the status check
StatusMessage(provider) == <<"Error", "returned status", provider>>

\* The except clauses of the stream: what is yielded, or that the exception
\* leaves the generator
HandleException_httpxOnly(provider, kind) ==
    IF kind = "Exception"
    THEN [raises |-> TRUE, yield |-> <<>>]
    ELSE [raises |-> FALSE, yield |-> <<ErrorMessage(provider, kind)>>]

HandleException(provider, kind) ==
    [raises |-> FALSE, yield |-> <<ErrorMessage(provider, kind)>>]

\* One pass of the loop over aiter_lines: what is yielded, whether the loop
\* breaks, and the exception raised
LineEffect(provider, line) ==
    CASE line \in ExceptionKinds -> [yield |-> <<>>, stop |-> FALSE, exc |-> line]
      [] line = "content" -> [yield |-> <<<<"content">>>>, stop |-> FALSE, exc |-> "none"]
      [] line = "content_done" ->
            \* ollama: content and "done": true in one object; lmstudio: a
            \* delta with content, the end marker coming as its own line
            [yield |-> <<<<"content">>>>, stop |-> provider = "ollama", exc |-> "none"]
      [] line = "done" -> [yield |-> <<>>, stop |-> TRUE, exc |-> "none"]
      [] line = "not_object" ->
            \* data.get of a list, a string or null: AttributeError or TypeError
            [yield |-> <<>>, stop |-> FALSE, exc |-> "Exception"]
      [] OTHER -> [yield |-> <<>>, stop |-> FALSE, exc |-> "none"]

LineSeqs == UNION {[1..n -> LineEvents] : n \in 0..MaxStreamLines}

InitClient ==
    /\ s_pc = "start"
    /\ s_provider \in Providers
    /\ s_open \in OpenOutcomes
    /\ s_lines \in LineSeqs
    /\ s_out = <<>>
    /\ IdlePlanner /\ IdleCritic /\ IdleReader /\ IdleRun /\ IdleHunter /\ IdleReread /\ IdleShared

\* client.py:120-136, 153-172 : the request is sent; an exception or a status
\* other than 200 ends the stream with one message
StreamOpen ==
    /\ s_pc = "start"
    /\ IF s_open \in ExceptionKinds
       THEN LET h == HandleException(s_provider, s_open)
            IN  /\ s_out' = s_out \o h.yield
                /\ s_pc' = IF h.raises THEN "raised" ELSE "closed"
       ELSE IF s_open = "status"
       THEN /\ s_out' = Append(s_out, StatusMessage(s_provider))
            /\ s_pc' = "closed"
       ELSE /\ s_out' = s_out
            /\ s_pc' = "streaming"
    /\ UNCHANGED <<s_provider, s_open, s_lines>>
    /\ UNCHANGED <<p_vars, c_vars, r_vars, o_vars, h_vars, i_vars, m_vars>>

\* client.py:138-151, 153-172 : one line of the response is handled; the
\* line that raised stays first in s_lines, the end marker drops the rest
StreamLine ==
    /\ s_pc = "streaming"
    /\ s_lines # <<>>
    /\ LET eff == LineEffect(s_provider, Head(s_lines))
           h == HandleException(s_provider, eff.exc)
       IN  IF eff.exc # "none"
           THEN /\ s_out' = s_out \o h.yield
                /\ s_pc' = IF h.raises THEN "raised" ELSE "closed"
                /\ s_lines' = s_lines
           ELSE /\ s_out' = s_out \o eff.yield
                /\ s_pc' = IF eff.stop THEN "closed" ELSE "streaming"
                /\ s_lines' = IF eff.stop THEN <<>> ELSE Tail(s_lines)
    /\ UNCHANGED <<s_provider, s_open>>
    /\ UNCHANGED <<p_vars, c_vars, r_vars, o_vars, h_vars, i_vars, m_vars>>

\* client.py:138 : the response has no further line
StreamEnd ==
    /\ s_pc = "streaming"
    /\ s_lines = <<>>
    /\ s_pc' = "closed"
    /\ UNCHANGED <<s_provider, s_open, s_lines, s_out>>
    /\ UNCHANGED <<p_vars, c_vars, r_vars, o_vars, h_vars, i_vars, m_vars>>

NextClient == StreamOpen \/ StreamLine \/ StreamEnd

SpecClient == InitClient /\ [][NextClient]_vars

\* The request or the stream failed: an exception, or a status other than 200
StreamFailed ==
    \/ s_open # "ok"
    \/ (s_lines # <<>> /\ LineEffect(s_provider, Head(s_lines)).exc # "none")

\* C24: stream_chat never raises to its caller; on a connection error, a
\* protocol error, a status other than 200 or any other exception the last
\* text it yields begins with "Error", and the stream ends.
C24_StreamChatNeverRaises ==
    /\ s_pc # "raised"
    /\ (s_pc = "closed" /\ StreamFailed) =>
          /\ s_out # <<>>
          /\ Head(s_out[Len(s_out)]) = "Error"

\* A stream that had yielded content broke with an exception the except
\* clauses do not name, and ended with an error message
C24_Witness ==
    /\ s_pc = "closed"
    /\ s_open = "ok"
    /\ s_lines # <<>> /\ Head(s_lines) = "Exception"
    /\ Len(s_out) = 2
    /\ Head(s_out[2]) = "Error"

----------------------------------------------------------------------------
(* One research run: the control loop over the ResearchContext              *)

\* Largest max_iterations of a run
MaxIterBound == 2

\* Most sources one Hunter pass of a run finds
MaxRunSources == 1

\* Room of context.tasks: the largest plan and one batch of emergency tasks
MaxTasks == MaxPlanItems + MaxEmergencyTasks

RunQuestions == {<<"q0">>}

\* Planning answers of a run: two tasks of equal priority, two tasks whose
\* priorities run against their order, one task, free text, a failed call
RunPlanResponses ==
    {Completion(FALSE, <<FenceJson>>, <<Fence>>,
                Doc("list", "none", "list",
                    <<PlanItem(TRUE, TRUE, <<"t1">>, TRUE, 2),
                      PlanItem(TRUE, TRUE, <<"t2">>, FALSE, 0)>>)),
     Completion(FALSE, <<>>, <<>>,
                Doc("list", "none", "list",
                    <<PlanItem(TRUE, TRUE, <<"t1">>, TRUE, 2),
                      PlanItem(TRUE, TRUE, <<"t2">>, TRUE, 1)>>)),
     Completion(FALSE, <<>>, <<>>,
                Doc("list", "none", "list", <<PlanItem(TRUE, TRUE, <<"t1">>, TRUE, 1)>>)),
     Completion(FALSE, <<>>, <<>>, TextDoc),
     Raised}

GoodData2 == ChunkData(TRUE, TRUE, Text("c5", 100, 0), "num", 80)

\* Extraction answers of a run: two relevant chunks, or free text
RunExtractionResponses ==
    {ReaderCompletion(FALSE, "none", <<>>, <<>>,
                      Doc("list", "none", "list", <<GoodData, GoodData2>>)),
     ReaderCompletion(FALSE, "none", <<>>, <<>>, TextDoc)}

RunFetchOutcomes == {FetchOutcome(FALSE, FALSE, Text("page", 3000, 0))}

\* Evaluation answers of a run: sufficient, not sufficient, a failed call
RunEvalResponses ==
    {Completion(FALSE, <<>>, <<>>, Doc("dict", "sufficient", "true", <<>>)),
     Completion(FALSE, <<>>, <<>>, Doc("dict", "sufficient", "false", <<>>)),
     Raised}

\* Gap-analysis answers of a run: two queries, or free text
RunGapResponses ==
    {Completion(FALSE, <<>>, <<>>,
                Doc("dict", "suggested_queries", "list", <<<<"g1">>, <<"g2">>>>)),
     Completion(FALSE, <<>>, <<>>, TextDoc)}

\* Final gap-analysis answers of a run: one query, or free text, or a failed call
RunFinalGapResponses ==
    {Completion(FALSE, <<>>, <<>>,
                Doc("dict", "suggested_queries", "list", <<<<"e1">>>>)),
     Completion(FALSE, <<>>, <<>>, TextDoc),
     Raised}

\* A task still to be worked on: pending, or continuing after a CONTINUE
Active(task) == task.status \in {PENDING, IN_PROGRESS}

\* The ITERATING loop goes on while this holds
LoopGuard_offByOne(ts, count, maxIter) ==
    (\E i \in DOMAIN ts : Active(ts[i])) /\ count <= maxIter

LoopGuard(ts, count, maxIter) ==
    (\E i \in DOMAIN ts : Active(ts[i])) /\ count < maxIter

\* The task the round takes: lowest priority value, then insertion order
NextTaskIndex_anyStatus(ts) ==
    CHOOSE i \in DOMAIN ts :
        \A j \in DOMAIN ts :
            \/ ts[i].priority < ts[j].priority
            \/ (ts[i].priority = ts[j].priority /\ i <= j)

NextTaskIndex_latestFirst(ts) ==
    CHOOSE i \in DOMAIN ts :
        /\ Active(ts[i])
        /\ \A j \in DOMAIN ts :
              Active(ts[j]) =>
                 \/ ts[i].priority < ts[j].priority
                 \/ (ts[i].priority = ts[j].priority /\ i >= j)

NextTaskIndex(ts) ==
    CHOOSE i \in DOMAIN ts :
        /\ Active(ts[i])
        /\ \A j \in DOMAIN ts :
              Active(ts[j]) =>
                 \/ ts[i].priority < ts[j].priority
                 \/ (ts[i].priority = ts[j].priority /\ i <= j)

\* Fragments are appended to the pool, never replacing it
AppendToPool_replace(pool, new) == IF new = <<>> THEN pool ELSE new

AppendToPool(pool, new) == pool \o new

\* The fragments of the pool attributed to a task
TaskChunks(pool, task_id) == SelectSeq(pool, LAMBDA c : c.task_id = task_id)

\* FINAL_CHECK goes back to ITERATING: extra tasks were proposed, the budget
\* is not used up, and it has not gone back before
ReturnToIterating_ignoreCap(final, count, maxIter, back) ==
    final.tasks # <<>> /\ ~back

ReturnToIterating_again(final, count, maxIter, back) ==
    final.tasks # <<>> /\ count < maxIter

ReturnToIterating(final, count, maxIter, back) ==
    final.tasks # <<>> /\ count < maxIter /\ ~back

\* A task is abandoned when its gap-filling round added no fragment
Abandon_never(added) == FALSE

Abandon_always(added) == TRUE

Abandon(added) == added = 0

\* iteration_count after a decision of evaluate_task: CONTINUE increments it
CountAfter_everyRound(count, decision) == count + 1

CountAfter_byTwo(count, decision) == IF decision = CONTINUE THEN count + 2 ELSE count

CountAfter(count, decision) == IF decision = CONTINUE THEN count + 1 ELSE count

\* The phase that follows a phase in the linear order of a run
PhaseAfter_skipFinalCheck(ph) ==
    CASE ph = "PLANNING" -> "ITERATING"
      [] ph = "ITERATING" -> "WRITING"
      [] ph = "FINAL_CHECK" -> "WRITING"
      [] OTHER -> "DONE"

PhaseAfter_skipWriting(ph) ==
    CASE ph = "PLANNING" -> "ITERATING"
      [] ph = "ITERATING" -> "FINAL_CHECK"
      [] OTHER -> "DONE"

PhaseAfter(ph) ==
    CASE ph = "PLANNING" -> "ITERATING"
      [] ph = "ITERATING" -> "FINAL_CHECK"
      [] ph = "FINAL_CHECK" -> "WRITING"
      [] OTHER -> "DONE"

\* One Hunter pass and the Reader pass over its sources, for a task id
PassResults(task_id) ==
    {read_sources(SourcesFor(task_id, n), outcomes, responses) :
        n \in 0..MaxRunSources,
        outcomes \in [1..MaxRunSources -> RunFetchOutcomes],
        responses \in [1..MaxRunSources -> RunExtractionResponses]}

InitRun ==
    /\ phase = "PLANNING"
    /\ step = "none"
    /\ original_question \in RunQuestions
    /\ max_iterations \in 0..MaxIterBound
    /\ iteration_count = 0
    /\ tasks = <<>>
    /\ chunks = <<>>
    /\ current = 0
    /\ aux_queries = <<>>
    /\ gap_added = 0
    /\ returned = FALSE
    /\ hunt_calls = <<>>
    /\ writer_calls = 0
    /\ decisions = <<>>
    /\ final_results = <<>>
    /\ IdlePlanner /\ IdleCritic /\ IdleReader /\ IdleHunter /\ IdleReread /\ IdleClient /\ IdleShared

\* PLANNING: the Planner is called once and its tasks seed the context
Plan ==
    /\ phase = "PLANNING"
    /\ \E resp \in RunPlanResponses :
          /\ tasks' = create_research_plan(original_question, resp, 0)
          /\ hunt_calls' = [i \in DOMAIN tasks' |-> 0]
          /\ decisions' = [i \in DOMAIN tasks' |-> <<>>]
    /\ phase' = PhaseAfter(phase)
    /\ step' = "select"
    /\ UNCHANGED <<original_question, max_iterations, iteration_count, chunks, current,
                   aux_queries, gap_added, returned, writer_calls, final_results>>
    /\ UNCHANGED <<p_vars, c_vars, r_vars, h_vars, i_vars, s_vars, m_vars>>

\* ITERATING a: the next task is selected and becomes in_progress
SelectTask ==
    /\ phase = "ITERATING" /\ step = "select"
    /\ LoopGuard(tasks, iteration_count, max_iterations)
    /\ current' = NextTaskIndex(tasks)
    /\ tasks' = [tasks EXCEPT ![current'].status = IN_PROGRESS]
    /\ step' = "hunt"
    /\ UNCHANGED <<phase, original_question, max_iterations, iteration_count, chunks,
                   aux_queries, gap_added, returned, hunt_calls, writer_calls,
                   decisions, final_results>>
    /\ UNCHANGED <<p_vars, c_vars, r_vars, h_vars, i_vars, s_vars, m_vars>>

\* ITERATING b: Hunter and Reader produce fragments for the task, which are
\* appended to the pool
HuntAndRead ==
    /\ phase = "ITERATING" /\ step = "hunt"
    /\ \E new \in PassResults(tasks[current].id) :
          chunks' = AppendToPool(chunks, new)
    /\ hunt_calls' = [hunt_calls EXCEPT ![current] = @ + 1]
    /\ step' = "evaluate"
    /\ UNCHANGED <<phase, original_question, max_iterations, iteration_count, tasks, current,
                   aux_queries, gap_added, returned, writer_calls, decisions, final_results>>
    /\ UNCHANGED <<p_vars, c_vars, r_vars, h_vars, i_vars, s_vars, m_vars>>

\* ITERATING c: evaluate_task answers FINISH and the task is completed
EvaluateFinish ==
    /\ phase = "ITERATING" /\ step = "evaluate"
    /\ \E er \in RunEvalResponses, gr \in RunGapResponses :
          evaluate_task(tasks[current], TaskChunks(chunks, tasks[current].id), er, gr).decision
              = FINISH
    /\ tasks' = [tasks EXCEPT ![current].status = COMPLETED]
    /\ decisions' = [decisions EXCEPT ![current] = Append(@, FINISH)]
    /\ iteration_count' = CountAfter(iteration_count, FINISH)
    /\ current' = 0
    /\ step' = "select"
    /\ UNCHANGED <<phase, original_question, max_iterations, chunks,
                   aux_queries, gap_added, returned, hunt_calls, writer_calls, final_results>>
    /\ UNCHANGED <<p_vars, c_vars, r_vars, h_vars, i_vars, s_vars, m_vars>>

\* ITERATING c: evaluate_task answers CONTINUE; iteration_count grows and the
\* gap's queries are queued as auxiliary passes of the same task
EvaluateContinue ==
    /\ phase = "ITERATING" /\ step = "evaluate"
    /\ \E er \in RunEvalResponses, gr \in RunGapResponses :
          LET r == evaluate_task(tasks[current], TaskChunks(chunks, tasks[current].id), er, gr)
          IN  /\ r.decision = CONTINUE
              /\ aux_queries' = r.gap.suggested_queries
    /\ decisions' = [decisions EXCEPT ![current] = Append(@, CONTINUE)]
    /\ iteration_count' = CountAfter(iteration_count, CONTINUE)
    /\ gap_added' = 0
    /\ step' = "gapfill"
    /\ UNCHANGED <<phase, original_question, max_iterations, tasks, chunks, current,
                   returned, hunt_calls, writer_calls, final_results>>
    /\ UNCHANGED <<p_vars, c_vars, r_vars, h_vars, i_vars, s_vars, m_vars>>

\* ITERATING c: one gap query is dispatched as a Hunter/Reader pass whose
\* fragments carry the id of the same task
GapFillPass ==
    /\ phase = "ITERATING" /\ step = "gapfill"
    /\ aux_queries # <<>>
    /\ \E new \in PassResults(tasks[current].id) :
          /\ chunks' = AppendToPool(chunks, new)
          /\ gap_added' = gap_added + Len(new)
    /\ aux_queries' = Tail(aux_queries)
    /\ hunt_calls' = [hunt_calls EXCEPT ![current] = @ + 1]
    /\ UNCHANGED <<phase, step, original_question, max_iterations, iteration_count, tasks,
                   current, returned, writer_calls, decisions, final_results>>
    /\ UNCHANGED <<p_vars, c_vars, r_vars, h_vars, i_vars, s_vars, m_vars>>

\* ITERATING d: the gap queries are through; a task they added nothing to is
\* abandoned (completed), any other stays in progress for a later round
GapFillEnd ==
    /\ phase = "ITERATING" /\ step = "gapfill"
    /\ aux_queries = <<>>
    /\ tasks' = IF Abandon(gap_added)
                THEN [tasks EXCEPT ![current].status = COMPLETED]
                ELSE tasks
    /\ current' = 0
    /\ gap_added' = 0
    /\ step' = "select"
    /\ UNCHANGED <<phase, original_question, max_iterations, iteration_count, chunks,
                   aux_queries, returned, hunt_calls, writer_calls, decisions, final_results>>
    /\ UNCHANGED <<p_vars, c_vars, r_vars, h_vars, i_vars, s_vars, m_vars>>

\* ITERATING ends: no task is left to work on, or the budget is used up
ExitLoop ==
    /\ phase = "ITERATING" /\ step = "select"
    /\ ~LoopGuard(tasks, iteration_count, max_iterations)
    /\ phase' = PhaseAfter(phase)
    /\ step' = "none"
    /\ UNCHANGED <<original_question, max_iterations, iteration_count, tasks, chunks, current,
                   aux_queries, gap_added, returned, hunt_calls, writer_calls,
                   decisions, final_results>>
    /\ UNCHANGED <<p_vars, c_vars, r_vars, h_vars, i_vars, s_vars, m_vars>>

\* FINAL_CHECK: evaluate_final proposes extra tasks, which are merged, and the
\* run goes back to ITERATING
FinalCheckReturn ==
    /\ phase = "FINAL_CHECK"
    /\ \E er \in RunEvalResponses, gr \in RunFinalGapResponses :
          LET final == evaluate_final(original_question, er, gr, Len(tasks))
          IN  /\ ReturnToIterating(final, iteration_count, max_iterations, returned)
              /\ Len(tasks) + Len(final.tasks) <= MaxTasks
              /\ tasks' = tasks \o final.tasks
              /\ hunt_calls' = hunt_calls \o [i \in DOMAIN final.tasks |-> 0]
              /\ decisions' = decisions \o [i \in DOMAIN final.tasks |-> <<>>]
              /\ final_results' = Append(final_results, final)
    /\ returned' = TRUE
    /\ phase' = "ITERATING"
    /\ step' = "select"
    /\ UNCHANGED <<original_question, max_iterations, iteration_count, chunks, current,
                   aux_queries, gap_added, writer_calls>>
    /\ UNCHANGED <<p_vars, c_vars, r_vars, h_vars, i_vars, s_vars, m_vars>>

\* FINAL_CHECK: nothing to go back for; the run proceeds to WRITING
FinalCheckProceed ==
    /\ phase = "FINAL_CHECK"
    /\ \E er \in RunEvalResponses, gr \in RunFinalGapResponses :
          LET final == evaluate_final(original_question, er, gr, Len(tasks))
          IN  /\ ~ReturnToIterating(final, iteration_count, max_iterations, returned)
              /\ final_results' = Append(final_results, final)
    /\ phase' = PhaseAfter(phase)
    /\ UNCHANGED <<step, original_question, max_iterations, iteration_count, tasks, chunks,
                   current, aux_queries, gap_added, returned, hunt_calls, writer_calls,
                   decisions>>
    /\ UNCHANGED <<p_vars, c_vars, r_vars, h_vars, i_vars, s_vars, m_vars>>

\* WRITING: the Writer is called with the context and the run is DONE
Write ==
    /\ phase = "WRITING"
    /\ writer_calls' = writer_calls + 1
    /\ phase' = PhaseAfter(phase)
    /\ UNCHANGED <<step, original_question, max_iterations, iteration_count, tasks, chunks,
                   current, aux_queries, gap_added, returned, hunt_calls,
                   decisions, final_results>>
    /\ UNCHANGED <<p_vars, c_vars, r_vars, h_vars, i_vars, s_vars, m_vars>>

Next ==
    \/ Plan
    \/ SelectTask
    \/ HuntAndRead
    \/ EvaluateFinish
    \/ EvaluateContinue
    \/ GapFillPass
    \/ GapFillEnd
    \/ ExitLoop
    \/ FinalCheckReturn
    \/ FinalCheckProceed
    \/ Write

Spec == InitRun /\ [][Next]_vars

\* Every provider call returns, so the single flow of control keeps running
FairSpec == Spec /\ WF_vars(Next)

----------------------------------------------------------------------------
(* Properties of a research run                                             *)

IsPrefix(a, b) == Len(a) <= Len(b) /\ SubSeq(b, 1, Len(a)) = a

SomeTaskActive == \E i \in DOMAIN tasks : Active(tasks[i])

\* C1: in every state of a run iteration_count <= max_iterations, in
\* particular when the run enters WRITING, for every max_iterations >= 0.
C1_IterationCountBounded ==
    phase # "off" => iteration_count <= max_iterations

\* A run enters WRITING with its budget used up and a task left unfinished
C1_Witness ==
    /\ phase = "WRITING"
    /\ max_iterations > 0
    /\ iteration_count = max_iterations
    /\ SomeTaskActive

C3_NoDispatchAfterCompleted ==
    [][\A i \in DOMAIN tasks :
          tasks[i].status = COMPLETED =>
             /\ tasks'[i].status = COMPLETED
             /\ hunt_calls'[i] = hunt_calls[i]]_vars

\* After FINAL_CHECK went back, a pass has been dispatched for an emergency
\* task while an earlier task is completed
C3_Witness ==
    /\ returned
    /\ phase = "ITERATING" /\ step = "evaluate"
    /\ hunt_calls[current] >= 1
    /\ \E i \in DOMAIN tasks : tasks[i].status = COMPLETED /\ hunt_calls[i] >= 1

\* C4: the fragment pool is append-only: in every step the pool before the
\* step is a prefix of the pool after it.
C4_PoolAppendOnly == [][IsPrefix(chunks, chunks')]_vars

\* Two passes have appended fragments to the pool
C4_Witness ==
    /\ phase = "ITERATING"
    /\ Len(chunks) >= 4
    /\ \E i \in DOMAIN hunt_calls : hunt_calls[i] >= 2

AllFinishedAtOnce == \A i \in DOMAIN tasks : decisions[i] = <<FINISH>>

\* evaluate_final was called once and answered (false, no task)
FinalSufficient ==
    final_results = <<[should_continue |-> FALSE, tasks |-> <<>>]>>

\* C22: if the Critic returns FINISH for every planned task on its first
\* evaluation and evaluate_final judges the pool sufficient, the run ends with
\* iteration_count = 0, every planned task passed through Hunter/Reader
\* exactly once and completed, and no emergency task in tasks.
C22_HappyPathNoExtraRounds ==
    (phase = "DONE" /\ AllFinishedAtOnce /\ FinalSufficient) =>
        /\ iteration_count = 0
        /\ ~returned
        /\ \A i \in DOMAIN tasks :
              /\ hunt_calls[i] = 1
              /\ tasks[i].status = COMPLETED
              /\ tasks[i].priority # EmergencyPriority

\* A run with two planned tasks, each finished on its first evaluation, is done
C22_Witness ==
    /\ phase = "DONE"
    /\ Len(tasks) = 2
    /\ AllFinishedAtOnce
    /\ FinalSufficient

ForwardPhases ==
    {<<"PLANNING", "ITERATING">>, <<"ITERATING", "FINAL_CHECK">>,
     <<"FINAL_CHECK", "WRITING">>, <<"WRITING", "DONE">>}

\* C29: the phases of a run advance only in the order PLANNING, ITERATING,
\* FINAL_CHECK, WRITING, DONE; the only backward transition is FINAL_CHECK to
\* ITERATING, taken at most once per run and only when evaluate_final
\* proposed extra tasks and iteration_count < max_iterations.
C29_PhaseOrder ==
    [][phase' # phase =>
         \/ <<phase, phase'>> \in ForwardPhases
         \/ /\ phase = "FINAL_CHECK" /\ phase' = "ITERATING"
            /\ ~returned /\ returned'
            /\ iteration_count < max_iterations
            /\ Len(final_results') = Len(final_results) + 1
            /\ final_results'[Len(final_results')].tasks # <<>>
            /\ Len(tasks') > Len(tasks)]_vars

\* A run is back in ITERATING with the extra tasks of its final check
C29_Witness ==
    /\ phase = "ITERATING"
    /\ returned
    /\ Len(final_results) = 1
    /\ final_results[1].tasks # <<>>
    /\ \E i \in DOMAIN tasks : tasks[i].priority = EmergencyPriority

\* C30: iteration_count never decreases during a run; each CONTINUE decision
\* of evaluate_task increases it by exactly one and a FINISH decision leaves
\* it unchanged.
C30_IterationCountSteps ==
    [][/\ iteration_count' >= iteration_count
       /\ \A i \in DOMAIN decisions :
             Len(decisions'[i]) = Len(decisions[i]) + 1 =>
                iteration_count' =
                   IF decisions'[i][Len(decisions'[i])] = CONTINUE
                   THEN iteration_count + 1
                   ELSE iteration_count]_vars

\* A task was continued once and then finished; the count stands at one
C30_Witness ==
    /\ phase # "off"
    /\ iteration_count = 1
    /\ \E i \in DOMAIN decisions : decisions[i] = <<CONTINUE, FINISH>>

\* The last decision evaluate_task gave for a task, "none" before the first
LastDecision(i) ==
    IF decisions[i] = <<>> THEN "none" ELSE decisions[i][Len(decisions[i])]

\* The gap-filling round of the current task ends in this step
GapRoundEnds == step = "gapfill" /\ step' # "gapfill"

\* C31: a task whose gap-filling round added no fragment to the pool is
\* marked completed at the end of that round, and a completed task stays
\* completed and gets no further Hunter/Reader pass, so a task has at most
\* one fruitless retry.
C31_FruitlessRetryAbandons ==
    [][/\ (GapRoundEnds /\ gap_added = 0) => tasks'[current].status = COMPLETED
       /\ \A i \in DOMAIN tasks :
             tasks[i].status = COMPLETED =>
                /\ tasks'[i].status = COMPLETED
                /\ hunt_calls'[i] = hunt_calls[i]]_vars

\* A task was abandoned after a round of two gap queries that added nothing
C31_Witness ==
    /\ phase # "off"
    /\ \E i \in DOMAIN tasks :
          /\ tasks[i].status = COMPLETED
          /\ LastDecision(i) = CONTINUE
          /\ hunt_calls[i] = 3

\* The moves of a task's status
StatusMoves ==
    {<<PENDING, IN_PROGRESS>>, <<IN_PROGRESS, COMPLETED>>, <<IN_PROGRESS, FAILED>>}

StatusMovesOnly ==
    \A i \in DOMAIN tasks :
       /\ tasks'[i].status # tasks[i].status =>
             <<tasks[i].status, tasks'[i].status>> \in StatusMoves
       /\ tasks[i].status \in {COMPLETED, FAILED} => tasks'[i].status = tasks[i].status

BecomesCompleted(i) == tasks[i].status # COMPLETED /\ tasks'[i].status = COMPLETED

FinishReturnedFor(i) == decisions'[i] = Append(decisions[i], FINISH)

\* C32 as stated: status moves only pending -> in_progress -> completed or
\* failed, a task becomes completed only in a step where evaluate_task
\* returned FINISH for it, and completed and failed are final.
C32_CompletedOnlyOnFinish ==
    [][/\ StatusMovesOnly
       /\ \A i \in DOMAIN tasks : BecomesCompleted(i) => FinishReturnedFor(i)]_vars

\* C32 amended: status moves only pending -> in_progress -> completed or
\* failed, a task becomes completed only in a step where evaluate_task
\* returned FINISH for it or at the end of a gap-filling round of it that
\* added no fragment, and completed and failed are final.
C32_CompletedOnFinishOrAbandon ==
    [][/\ StatusMovesOnly
       /\ \A i \in DOMAIN tasks :
             BecomesCompleted(i) =>
                \/ FinishReturnedFor(i)
                \/ (GapRoundEnds /\ gap_added = 0 /\ i = current)]_vars

\* One task was completed by FINISH and another by abandonment
C32_Witness ==
    /\ phase # "off"
    /\ \E i, j \in DOMAIN tasks :
          /\ tasks[i].status = COMPLETED /\ LastDecision(i) = FINISH
          /\ tasks[j].status = COMPLETED /\ LastDecision(j) = CONTINUE

\* A round selects its task in this step
Selects == phase = "ITERATING" /\ step = "select" /\ step' = "hunt"

Before(ts, i, j) ==
    \/ ts[i].priority < ts[j].priority
    \/ (ts[i].priority = ts[j].priority /\ i <= j)

\* C33 as stated: the task a round selects is a pending task with the lowest
\* priority value among the pending tasks, and among pending tasks of equal
\* priority the one inserted first.
C33_SelectsPendingByPriority ==
    [][Selects =>
          /\ tasks[current'].status = PENDING
          /\ \A j \in DOMAIN tasks :
                tasks[j].status = PENDING => Before(tasks, current', j)]_vars

\* C33 amended: the task a round selects is a pending or continuing
\* (in_progress) task with the lowest priority value among the pending and
\* continuing tasks, and among those of equal priority the one inserted first.
C33_SelectsActiveByPriority ==
    [][Selects =>
          /\ Active(tasks[current'])
          /\ \A j \in DOMAIN tasks :
                Active(tasks[j]) => Before(tasks, current', j)]_vars

\* A continuing task was selected again while a task of equal priority
\* inserted after it is still pending
C33_Witness ==
    /\ phase = "ITERATING" /\ step = "hunt"
    /\ decisions[current] # <<>>
    /\ \E j \in DOMAIN tasks :
          /\ j > current
          /\ tasks[j].status = PENDING
          /\ tasks[j].priority = tasks[current].priority

\* The second task of a plan was selected before the first, whose priority
\* value is greater
C33_WitnessPriority ==
    /\ phase = "ITERATING" /\ step = "hunt"
    /\ current = 2
    /\ tasks[1].status = PENDING
    /\ tasks[1].priority > tasks[2].priority

\* Emergency tasks and tasks of the Planner are never waiting together: the
\* emergency tasks are merged only once no task of the plan is left to work on
EmergencyNeverBesidePlanned ==
    \A i, j \in DOMAIN tasks :
       (tasks[i].priority = EmergencyPriority /\ Active(tasks[i]))
          => (tasks[j].priority = EmergencyPriority \/ ~Active(tasks[j]))

----------------------------------------------------------------------------
(* Further properties of the Reader                                         *)

\* C40: every fragment read_sources returns for the pool has a
\* relevance_score between 0 and 1 (0..100 in hundredths), whatever the
\* completion provider answers to the extraction call.
C40_RelevanceInUnitRange ==
    \A k \in DOMAIN r_chunks :
       0 <= r_chunks[k].relevance_score /\ r_chunks[k].relevance_score <= 100

\* Source a after a write to fetched_content and fetched_at only
OnlyFetchFieldsDiffer(a, b) ==
    [a EXCEPT !.fetched = b.fetched, !.fetched_content = b.fetched_content] = b

\* C37: in every step of a read_sources call a Source changes only when its
\* own fetch returns, and then only in fetched_content and fetched_at; no
\* other Source, no Task and no field of the ResearchContext is written,
\* under every interleaving of the fetches.
C37_FetchWritesOwnSourceOnly ==
    [][/\ DOMAIN r_sources' = DOMAIN r_sources
       /\ \A i \in DOMAIN r_sources :
             r_sources'[i] # r_sources[i] =>
                /\ r_fetch[i] = "inflight" /\ r_fetch'[i] = "returned"
                /\ \A j \in DOMAIN r_sources : j # i => r_sources'[j] = r_sources[j]
                /\ OnlyFetchFieldsDiffer(r_sources[i], r_sources'[i])
       /\ UNCHANGED o_vars]_vars

\* The second fetch has returned a page and written its Source while the
\* first is still in flight and its Source untouched
C37_Witness ==
    /\ r_pc = "fetching"
    /\ r_fetch = <<"inflight", "returned">>
    /\ r_sources[2].fetched /\ r_sources[2].fetched_content # r_sources[2].description
    /\ ~r_sources[1].fetched

\* The position in the input list of the source a chunk refers to
SourcePosition(chunk) ==
    CHOOSE i \in DOMAIN r_sources : r_sources[i].url = chunk.source.url

\* C38: the chunks read_sources returns are ordered by the position of their
\* source in the input list, whatever order the concurrent fetches returned in.
C38_ChunksInSourceOrder ==
    r_pc = "done" =>
        \A k, l \in DOMAIN r_chunks :
            k < l => SourcePosition(r_chunks[k]) <= SourcePosition(r_chunks[l])

\* The second fetch returned before the first, and both sources gave chunks
C38_Witness ==
    /\ r_pc = "done"
    /\ r_order = <<2, 1>>
    /\ \E k, l \in DOMAIN r_chunks :
          SourcePosition(r_chunks[k]) = 1 /\ SourcePosition(r_chunks[l]) = 2

----------------------------------------------------------------------------
(* Hunter.hunt followed by Reader.read_sources on the sources it returned   *)

\* What the fetcher answers in this chain: a page, or nothing
ChainFetchOutcomes ==
    {FetchOutcome(FALSE, FALSE, Text("page", 3000, 0)),
     FetchOutcome(FALSE, TRUE, EmptyString)}

\* What the completion provider answers in this chain: one relevant chunk, a
\* relevance that cannot be compared, a failed call
ChainExtractionResponses ==
    {ReaderCompletion(FALSE, "none", <<>>, <<>>, GoodList),
     ReaderCompletion(FALSE, "none", <<>>, <<>>,
                      Doc("list", "none", "list", <<GoodData, BadRelevanceData>>)),
     ReaderRaised}

\* A Source of the Hunter as the Reader takes it: its description line is a
\* short text
HuntedSource(source) == [source EXCEPT !.description = Text(source.description, 20, 0)]

\* read_sources runs on the sources hunt returned
ReadHunted ==
    /\ h_pc = "done"
    /\ r_pc = "off"
    /\ LET sources == [i \in DOMAIN h_result |-> HuntedSource(h_result[i])]
       IN  \E outcomes \in [DOMAIN sources -> ChainFetchOutcomes],
              responses \in [DOMAIN sources -> ChainExtractionResponses] :
              /\ r_sources' = sources
              /\ r_outcome' = outcomes
              /\ r_response' = responses
              /\ r_chunks' = read_sources(sources, outcomes, responses)
    /\ r_pc' = "done"
    /\ UNCHANGED <<r_fetch, r_fetched, r_idx, r_llm_inflight, r_max_concurrent,
                   r_extract_calls, r_order>>
    /\ UNCHANGED <<p_vars, c_vars, o_vars, h_vars, i_vars, s_vars, m_vars>>

NextHuntRead == HuntRequest \/ HuntReturn \/ ReadHunted

SpecHuntRead == InitHunter /\ [][NextHuntRead]_vars

\* C35: every chunk read_sources produces from the sources hunt returned for
\* a task has the task's id as its task_id and refers to a source whose
\* task_id is that id, whether it comes from the extraction answer or from
\* a fallback.
C35_ChunksCarryTaskId ==
    (h_pc = "done" /\ r_pc = "done") =>
        \A k \in DOMAIN r_chunks :
            /\ r_chunks[k].task_id = h_task.id
            /\ r_chunks[k].source.task_id = h_task.id

\* Task 2: one source gave an extracted chunk, another the fallback chunk of
\* a failed extraction call
C35_Witness ==
    /\ h_pc = "done" /\ r_pc = "done"
    /\ h_task.id = 2
    /\ \E i, j \in DOMAIN r_sources :
          /\ r_response[i] = ReaderRaised
          /\ r_response[j] = ReaderCompletion(FALSE, "none", <<>>, <<>>, GoodList)
    /\ \E k, l \in DOMAIN r_chunks :
          /\ r_chunks[k].relevance_score = FallbackRelevance
          /\ r_chunks[l].relevance_score = GoodData.relevance

----------------------------------------------------------------------------
(* The Critic called on the context of a run: evaluate_task in a round of   *)
(* ITERATING, evaluate_final at FINAL_CHECK                                 *)

\* evaluate_task is called for the task of the round with its chunks
InitEvaluateInRun ==
    /\ c_pc = "start"
    /\ \E q \in TaskQueries : c_task = ResearchTask(1, q, 1, IN_PROGRESS)
    /\ c_chunks \in EvalChunkLists
    /\ c_evalResp = Raised
    /\ c_gapResp = Raised
    /\ c_result = [decision |-> "none", gap |-> NoGap]
    /\ c_llm_calls = 0
    /\ phase = "ITERATING"
    /\ step = "evaluate"
    /\ original_question \in Questions
    /\ max_iterations = 1
    /\ iteration_count = 0
    /\ tasks = <<c_task>>
    /\ chunks = c_chunks
    /\ current = 1
    /\ aux_queries = <<>>
    /\ gap_added = 0
    /\ returned = FALSE
    /\ hunt_calls = <<1>>
    /\ writer_calls = 0
    /\ decisions = <<<<>>>>
    /\ final_results = <<>>
    /\ IdlePlanner /\ IdleReader /\ IdleHunter /\ IdleReread /\ IdleClient /\ IdleShared

NextCriticInRun == NextCritic \/ NextFinal

InitCriticInRun == InitEvaluateInRun \/ InitFinal

SpecCriticInRun == InitCriticInRun /\ [][NextCriticInRun]_vars

\* C39: no step of evaluate_task or evaluate_final changes the context's
\* tasks, its fragment pool or its iteration_count, nor the status or the
\* query of the evaluated task; the tasks evaluate_final creates are in its
\* result only.
C39_CriticLeavesContext ==
    [][/\ tasks' = tasks
       /\ chunks' = chunks
       /\ iteration_count' = iteration_count
       /\ c_task'.status = c_task.status
       /\ c_task'.query = c_task.query]_vars

\* evaluate_final has returned emergency tasks and the context still holds
\* its one completed task
C39_Witness ==
    /\ c_pc = "final_done"
    /\ c_result.should_continue
    /\ c_result.tasks # <<>>
    /\ Len(tasks) = 1 /\ tasks[1].status = COMPLETED

\* evaluate_task has returned CONTINUE with gap queries and the task of the
\* round is still in progress with its query
C39_WitnessEvaluate ==
    /\ c_pc = "done"
    /\ phase = "ITERATING"
    /\ c_result.decision = CONTINUE
    /\ c_result.gap.suggested_queries # <<>>
    /\ tasks = <<c_task>> /\ c_task.status = IN_PROGRESS
    /\ chunks = c_chunks /\ chunks # <<>>

----------------------------------------------------------------------------
(* Two research runs whose Readers hold the same completion provider: the   *)
(* read_sources calls of the two runs overlap in time                       *)

InitShared ==
    /\ m_pc = [k \in Runs |-> "start"]
    /\ m_sources \in [Runs -> 0..MaxSources]
    /\ m_fetching = m_sources
    /\ m_idx = [k \in Runs |-> 0]
    /\ m_llm_inflight = 0
    /\ IdlePlanner /\ IdleCritic /\ IdleReader /\ IdleRun /\ IdleHunter /\ IdleReread
    /\ IdleClient

\* reader.py:59-61 : run k creates its fetch_one coroutines and gathers them
SharedReadStart(k) ==
    /\ m_pc[k] = "start"
    /\ m_pc' = [m_pc EXCEPT ![k] = "fetching"]
    /\ UNCHANGED <<m_sources, m_fetching, m_idx, m_llm_inflight>>
    /\ UNCHANGED <<p_vars, c_vars, r_vars, o_vars, h_vars, i_vars, s_vars>>

\* reader.py:45-57 : one fetch of run k returns
SharedFetchEnd(k) ==
    /\ m_pc[k] = "fetching"
    /\ m_fetching[k] > 0
    /\ m_fetching' = [m_fetching EXCEPT ![k] = @ - 1]
    /\ UNCHANGED <<m_pc, m_sources, m_idx, m_llm_inflight>>
    /\ UNCHANGED <<p_vars, c_vars, r_vars, o_vars, h_vars, i_vars, s_vars>>

\* reader.py:61-64 : gather returns in run k and its extraction loop starts
SharedGatherReturn(k) ==
    /\ m_pc[k] = "fetching"
    /\ m_fetching[k] = 0
    /\ m_pc' = [m_pc EXCEPT ![k] = "extracting"]
    /\ m_idx' = [m_idx EXCEPT ![k] = 1]
    /\ UNCHANGED <<m_sources, m_fetching, m_llm_inflight>>
    /\ UNCHANGED <<p_vars, c_vars, r_vars, o_vars, h_vars, i_vars, s_vars>>

\* reader.py:64-76, 118-121, client.py:79-99 : run k requests an extraction
\* from the provider; nothing makes it wait for a call of the other run
SharedExtractRequest(k) ==
    /\ m_pc[k] = "extracting"
    /\ m_idx[k] <= m_sources[k]
    /\ m_llm_inflight' = m_llm_inflight + 1
    /\ m_pc' = [m_pc EXCEPT ![k] = "awaiting_llm"]
    /\ UNCHANGED <<m_sources, m_fetching, m_idx>>
    /\ UNCHANGED <<p_vars, c_vars, r_vars, o_vars, h_vars, i_vars, s_vars>>

\* reader.py:121-155, 77 : the completion of run k arrives
SharedExtractReturn(k) ==
    /\ m_pc[k] = "awaiting_llm"
    /\ m_llm_inflight' = m_llm_inflight - 1
    /\ m_idx' = [m_idx EXCEPT ![k] = @ + 1]
    /\ m_pc' = [m_pc EXCEPT ![k] = "extracting"]
    /\ UNCHANGED <<m_sources, m_fetching>>
    /\ UNCHANGED <<p_vars, c_vars, r_vars, o_vars, h_vars, i_vars, s_vars>>

\* reader.py:90-91 : the loop of run k is over and its chunks are returned
SharedReadReturn(k) ==
    /\ m_pc[k] = "extracting"
    /\ m_idx[k] > m_sources[k]
    /\ m_pc' = [m_pc EXCEPT ![k] = "done"]
    /\ UNCHANGED <<m_sources, m_fetching, m_idx, m_llm_inflight>>
    /\ UNCHANGED <<p_vars, c_vars, r_vars, o_vars, h_vars, i_vars, s_vars>>

NextShared ==
    \/ \E k \in Runs : SharedReadStart(k)
    \/ \E k \in Runs : SharedFetchEnd(k)
    \/ \E k \in Runs : SharedGatherReturn(k)
    \/ \E k \in Runs : SharedExtractRequest(k)
    \/ \E k \in Runs : SharedExtractReturn(k)
    \/ \E k \in Runs : SharedReadReturn(k)

SpecShared == InitShared /\ [][NextShared]_vars

\* C36: when the read_sources calls of two runs on one completion provider
\* overlap, at most one extraction call to the provider is in flight at any
\* time.
C36_OneExtractionInFlight == m_llm_inflight <= 1

\* Within each of the two calls the extraction calls are one at a time
EachRunSerialized ==
    \A k \in Runs :
       m_pc[k] = "awaiting_llm" => (m_fetching[k] = 0 /\ m_idx[k] \in 1..m_sources[k])

====
